---- MODULE Spec2Model ----
(***************************************************************************)
(* A model of the batching renderer of Easel (StageGL in                   *)
(* src/display/Stage.ts): the texture slot table, the texture dictionary,  *)
(* the vertex batch, the render-mode state machine and the depth-first     *)
(* walk of the display list done by draw().                                *)
(*                                                                         *)
(* Every method of StageGL is an operator from a "world" record to a world *)
(* record.  A world holds the objects a call can touch:                    *)
(*   s   the StageGL instance's fields                                     *)
(*   t   the WebGLTexture objects (0 is the filler texture of              *)
(*       _initMaterials, the others are numbered in creation order)        *)
(*   i   the image objects and the bookkeeping fields StageGL puts on them *)
(*   g   the WebGL context: blend state and the draw calls of this frame   *)
(*   log what the calls of the running step did (observation only)         *)
(*   threw / ret: a pending exception, the last return value               *)
(***************************************************************************)
EXTENDS Integers, Sequences, FiniteSets, TLC

VARIABLES stage, tex, img, gl, children, stack, pc, log, frame, boot, cache,
          nodes

vars == <<stage, tex, img, gl, children, stack, pc, log, frame, boot, cache,
          nodes>>

-----------------------------------------------------------------------------
(* Bounds of the model *)

MaxSlots == 2          \* texture units the hardware reports: 1..MaxSlots
MaxDraws == 2          \* draw() calls in one behaviour
BigLen == 171          \* leaves of the large display list
MaxUnits == 8          \* texture units of the hardware in the start-up loop
MaxFilters == 2        \* filters of a cache: 0..MaxFilters
MaxCacheDraws == 2     \* cacheDraw() calls in one behaviour
MaxPurgeDraws == 16    \* draw() calls in one behaviour of the purge schedule
MaxNodes == 3          \* containers of the display list: 1..MaxNodes
MaxBuilderFrames == 3  \* frames added to a SpriteSheetBuilder

(* Program constants *)

INDICES_PER_CARD == 6
CanvasWidth == 300     \* canvas.width and canvas.height of the stage's canvas
CanvasHeight == 150
DrawWidth == 64        \* _drawWidth and _drawHeight of a cache
DrawHeight == 32
DEFAULT_MAX_BATCH_SIZE == 10920
DEFAULT_MIN_BATCH_SIZE == 170
DEFAULT_AUTO_PURGE == 1200

(* JavaScript's undefined, for the number-valued fields that may lack a value *)
undefined == -2
(* the StageGL itself as a render target (_batchTextureOutput = this) *)
THIS == -3
(* JavaScript's null, for the fields that hold a texture *)
null == -4
(* the number Infinity, and every autoPurge value v so large that (v/2)|0  *)
(* is 0 (the multiples of 2^33): above every counter of the model          *)
Infinity == 1000000
(* the number NaN, as an index handed to a Container *)
NaN == -9
(* a Filter object handed to _drawCover in the place of a texture *)
Filter == -5
(* the filler texture made by _initMaterials: texture 0, with _storeID -1 *)
BaseTexture == 0
BaseStoreID == -1
(* _imageData of a texture that tracks no images *)
NoData == <<undefined>>

Max(a, b) == IF a > b THEN a ELSE b
Min(a, b) == IF a < b THEN a ELSE b

-----------------------------------------------------------------------------
(* Matrix2D, over the integers: a matrix is its six numbers and its        *)
(* modified flag.                                                          *)

(* new Matrix2D(a, b, c, d, tx, ty) *)
Matrix2D(a, b, c, d, tx, ty) ==
    [a |-> a, b |-> b, c |-> c, d |-> d, tx |-> tx, ty |-> ty, modified |-> TRUE]

(* the static Matrix2D.identity() and the method identity() *)
identity == [Matrix2D(1, 0, 0, 1, 0, 0) EXCEPT !.modified = FALSE]

(* copy(matrix): setValues with the six numbers of matrix *)
copy(matrix) == [matrix EXCEPT !.modified = TRUE]

(* "(this matrix) * (specified matrix)" *)
append(m, a, b, c, d, tx, ty) ==
    [a |-> m.a * a + m.c * b,
     b |-> m.b * a + m.d * b,
     c |-> m.a * c + m.c * d,
     d |-> m.b * c + m.d * d,
     tx |-> m.tx + m.a * tx + m.c * ty,
     ty |-> m.ty + m.b * tx + m.d * ty,
     modified |-> TRUE]

appendMatrix(m, matrix) ==
    IF matrix.modified
    THEN append(m, matrix.a, matrix.b, matrix.c, matrix.d, matrix.tx, matrix.ty)
    ELSE m

(* a product that leaves the translation of the first matrix out *)
prepend_linear(m, a, b, c, d, tx, ty) ==
    [a |-> a * m.a + c * m.b,
     b |-> b * m.a + d * m.b,
     c |-> a * m.c + c * m.d,
     d |-> b * m.c + d * m.d,
     tx |-> a * m.tx + c * m.ty,
     ty |-> b * m.tx + d * m.ty,
     modified |-> TRUE]

(* "(specified matrix) * (this matrix)" *)
prepend(m, a, b, c, d, tx, ty) ==
    [a |-> a * m.a + c * m.b,
     b |-> b * m.a + d * m.b,
     c |-> a * m.c + c * m.d,
     d |-> b * m.c + d * m.d,
     tx |-> a * m.tx + c * m.ty + tx,
     ty |-> b * m.tx + d * m.ty + ty,
     modified |-> TRUE]

prependMatrix(m, matrix) ==
    IF matrix.modified
    THEN prepend(m, matrix.a, matrix.b, matrix.c, matrix.d, matrix.tx, matrix.ty)
    ELSE m

(* "append the registration offset" *)
Register(m, regX, regY) ==
    IF regX # 0 \/ regY # 0
    THEN [m EXCEPT !.tx = @ - (regX * m.a + regY * m.c),
                   !.ty = @ - (regX * m.b + regY * m.d),
                   !.modified = TRUE]
    ELSE m

(* appendTransform for a rotation that is a multiple of 360 (cos 1, sin 0) *)
(* and no skew                                                             *)
appendTransform(m, x, y, scaleX, scaleY, regX, regY) ==
    Register(append(m, scaleX, 0, 0, scaleY, x, y), regX, regY)

(* The transform of a display object: x, y, scaleX, scaleY, regX, regY and *)
(* transformMatrix (<<>>: not set).                                        *)
NoTransform ==
    [x |-> 0, y |-> 0, scaleX |-> 1, scaleY |-> 1, regX |-> 0, regY |-> 0,
     transformMatrix |-> <<>>]

(* if (o.transformMatrix) appendMatrix(o.transformMatrix) else             *)
(* appendTransform(o.x, o.y, ...), on the copy of concatMtx                *)
Concatenated(concatMtx, o) ==
    IF o.transformMatrix # <<>>
    THEN appendMatrix(copy(concatMtx), o.transformMatrix[1])
    ELSE appendTransform(copy(concatMtx), o.x, o.y, o.scaleX, o.scaleY,
                         o.regX, o.regY)

(* DisplayObject.getMatrix *)
getMatrix(o) ==
    IF o.transformMatrix # <<>>
    THEN copy(o.transformMatrix[1])
    ELSE appendTransform(identity, o.x, o.y, o.scaleX, o.scaleY, o.regX, o.regY)

(* Matrix2D.transformPoint, into a new Point *)
transformPoint(m, x, y) ==
    IF m.modified
    THEN <<x * m.a + y * m.c + m.tx, x * m.b + y * m.d + m.ty>>
    ELSE <<0, 0>>

(* DisplayObject.getConcatenatedMatrix: chain holds the transforms of the  *)
(* object, of its parent, of the parent's parent, ... up to the stage      *)
RECURSIVE PrependParents(_, _)
PrependParents(mtx, parents) ==
    IF parents = <<>> THEN mtx
    ELSE PrependParents(prependMatrix(mtx, getMatrix(Head(parents))), Tail(parents))

getConcatenatedMatrix(chain) ==
    PrependParents(getMatrix(Head(chain)), Tail(chain))

(* "apply vertices": the six corners written for the card with the sides  *)
(* subL, subT, subR, subB, as pairs x, y                                   *)
Corner(iMtx, subX, subY) ==
    <<subX * iMtx.a + subY * iMtx.c + iMtx.tx, subX * iMtx.b + subY * iMtx.d + iMtx.ty>>

Card(iMtx, subL, subT, subR, subB) ==
    <<Corner(iMtx, subL, subT), Corner(iMtx, subL, subB), Corner(iMtx, subR, subT),
      Corner(iMtx, subL, subB), Corner(iMtx, subR, subT), Corner(iMtx, subR, subB)>>

-----------------------------------------------------------------------------
(* Blend modes: the part of StageGL.BLEND_SOURCES the display lists use.   *)
(* shader = TRUE marks a mode with a custom fragment shader (an immediate  *)
(* mode).                                                                  *)

BlendDefaults ==
    [eqA |-> "FUNC_ADD", srcRGB |-> "ONE", dstRGB |-> "ONE_MINUS_SRC_ALPHA",
     srcA |-> "ONE", dstA |-> "ONE_MINUS_SRC_ALPHA", shader |-> FALSE]

BLEND_SOURCES ==
    [m \in {"source-over", "lighter", "screen", "multiply"} |->
        CASE m = "source-over" -> BlendDefaults
          [] m = "lighter" -> [BlendDefaults EXCEPT !.dstRGB = "ONE", !.dstA = "ONE"]
          [] m = "screen" -> [BlendDefaults EXCEPT !.dstRGB = "ONE_MINUS_SRC_COLOR"]
          [] m = "multiply" -> [BlendDefaults EXCEPT !.shader = TRUE]]

(* Names every JavaScript object inherits from Object.prototype: a lookup  *)
(* of one of them in BLEND_SOURCES or in _builtShaders is not undefined.   *)
ObjectPrototype == {"toString", "constructor"}

(* blendSrc.shader !== undefined, for a blend source of the table *)
Immediate(m) == m \in DOMAIN BLEND_SOURCES /\ BLEND_SOURCES[m].shader

NoComp == "null"       \* compositeOperation not set on a node

-----------------------------------------------------------------------------
(* Image sources.  kind "img" is an HTMLImageElement (src "" = none set),  *)
(* "canvas" an HTMLCanvasElement, "other" any other object.                *)

ImageSpec ==
    <<[kind |-> "img", src |-> "a"],
      [kind |-> "img", src |-> "b"],
      [kind |-> "img", src |-> "c"],
      [kind |-> "img", src |-> "a"],      \* a second element with the src of 1
      [kind |-> "img", src |-> ""],       \* an image element with no src
      [kind |-> "img", src |-> "d"]>>

Images == DOMAIN ImageSpec
Srcs == {ImageSpec[k].src : k \in Images} \ {""}
InvalidImage == 5

(* Display objects: records, with the fields _appendToBatch reads.         *)
(* style is _webGLRenderStyle: 2 a Bitmap, 0 an object StageGL cannot draw *)
(* (a Shape or Text without cache, a DOMElement).                          *)

(* transform holds x, y, scaleX, scaleY, regX, regY and transformMatrix;   *)
(* sourceRect is <<>> when not set; filters is filters.length (0 also for  *)
(* no filters at all).                                                     *)

Bitmap(id, image, comp, visible, alpha) ==
    [id |-> id, style |-> 2, isContainer |-> FALSE, image |-> image,
     compositeOperation |-> comp, visible |-> visible, alpha |-> alpha,
     children |-> <<>>, transform |-> NoTransform, sourceRect |-> <<>>,
     filters |-> 0]

Shape(id, comp) ==
    [id |-> id, style |-> 0, isContainer |-> FALSE, image |-> 0,
     compositeOperation |-> comp, visible |-> TRUE, alpha |-> 1,
     children |-> <<>>, transform |-> NoTransform, sourceRect |-> <<>>,
     filters |-> 0]

Container(id, comp, visible, alpha, kids) ==
    [id |-> id, style |-> 0, isContainer |-> TRUE, image |-> 0,
     compositeOperation |-> comp, visible |-> visible, alpha |-> alpha,
     children |-> kids, transform |-> NoTransform, sourceRect |-> <<>>,
     filters |-> 0]

(* a Bitmap with filters and no cache of its own *)
FilteredBitmap(id, image, filters) ==
    [id |-> id, style |-> 2, isContainer |-> FALSE, image |-> image,
     compositeOperation |-> NoComp, visible |-> TRUE, alpha |-> 1,
     children |-> <<>>, transform |-> NoTransform, sourceRect |-> <<>>,
     filters |-> filters]

(* image.width and image.height of the image sources *)
ImageSize(im) == [width |-> im + 1, height |-> 2 * im + 1]

B(id, image) == Bitmap(id, image, NoComp, TRUE, 1)

(* The display lists draw() is given: the stage's children.                *)
Scenes ==
    <<  <<B(1, 1), B(2, 2), B(3, 3)>>,
        <<B(1, 1), B(2, 2), B(5, InvalidImage), B(3, 3)>>,
        <<B(6, 6), B(1, 1), B(2, 2)>>,
        <<B(1, 1), B(4, 4)>>,
        <<Bitmap(1, 1, "lighter", TRUE, 1),
          Container(10, "screen", TRUE, 1, <<B(3, 3), Shape(8, "lighter"), B(2, 2)>>),
          Bitmap(4, 4, NoComp, FALSE, 1),
          Container(11, NoComp, TRUE, 0, <<B(9, 2)>>),
          B(6, 6)>>,
        <<Bitmap(1, 1, "multiply", TRUE, 1), B(2, 2)>>
    >>

SceneIds == DOMAIN Scenes

BigScene == [k \in 1..BigLen |-> B(k, 1)]

-----------------------------------------------------------------------------
(* Observation of a world: the batching state a call can change.           *)

(* the batch stamp of every texture object *)
Stamps(t) == [k \in DOMAIN t |-> t[k]._batchID]

View(w) ==
    [count |-> w.s._batchVertexCount, batchID |-> w.s._batchID,
     renders |-> w.s._renderPerDraw, calls |-> Len(w.g.calls),
     slots |-> w.s._batchTextures, batch |-> w.s.batch,
     mode |-> w.s._renderMode, blend |-> w.g.blend,
     immediate |-> w.s._immediateRender, config |-> w.s._activeConfig,
     stamps |-> Stamps(w.t)]

EmptyLog ==
    [rb |-> <<>>, ins |-> <<>>, wr |-> <<>>, um |-> <<>>, rel |-> <<>>,
     ld |-> <<>>, cv |-> <<>>, pg |-> <<>>, fr |-> <<>>, up |-> <<>>,
     sl |-> <<>>]

Throw(w) == [w EXCEPT !.threw = TRUE]

(* The texture the dictionary holds for a store id (undefined for none).   *)
Lookup(s, storeID) ==
    IF storeID >= 0 /\ storeID < Len(s._textureDictionary)
    THEN s._textureDictionary[storeID + 1]
    ELSE undefined

(* A new WebGLTexture object: no field set yet.                            *)
NewTexture ==
    [_batchID |-> undefined, _drawID |-> undefined, _activeIndex |-> undefined,
     _storeID |-> undefined, _imageData |-> NoData, _frameBuffer |-> FALSE,
     deleted |-> FALSE, uploads |-> 0]

-----------------------------------------------------------------------------
(* StageGL._renderBatch: submits the pending vertices in one draw call and *)
(* resets the cursor.                                                      *)

(* a flush without the test for an empty batch *)
_renderBatch_always(w) ==
    [w EXCEPT !.s._renderPerDraw = @ + 1,
              !.g.calls = Append(@, [kind |-> "batch",
                                     count |-> w.s._batchVertexCount,
                                     quads |-> w.s.batch,
                                     bound |-> w.s._batchTextures,
                                     mode |-> w.s._renderMode,
                                     blend |-> w.g.blend,
                                     config |-> w.s._activeConfig]),
              !.s._batchVertexCount = 0,
              !.s.batch = <<>>,
              !.s._batchID = @ + 1]

(* if (this._batchVertexCount <= 0) { return; } *)
_renderBatch(w) ==
    IF w.s._batchVertexCount <= 0
    THEN w
    ELSE [w EXCEPT !.s._renderPerDraw = @ + 1,
                   !.g.calls = Append(@, [kind |-> "batch",
                                          count |-> w.s._batchVertexCount,
                                          quads |-> w.s.batch,
                                          bound |-> w.s._batchTextures,
                                          mode |-> w.s._renderMode,
                                          blend |-> w.g.blend,
                                          config |-> w.s._activeConfig]),
                   !.s._batchVertexCount = 0,
                   !.s.batch = <<>>,
                   !.s._batchID = @ + 1]

(* A call of _renderBatch, with what it found (w) and what it left (r).    *)
Logged_renderBatch(w, r) ==
    [r EXCEPT !.log.rb = Append(@, [entry |-> View(w), exit |-> View(r)])]

Call_renderBatch(w) == Logged_renderBatch(w, _renderBatch(w))

(* StageGL._renderCover: one full-surface card, counted as a batch.        *)
_renderCover(w) ==
    [w EXCEPT !.s._renderPerDraw = @ + 1,
              !.g.calls = Append(@, [kind |-> "cover",
                                     count |-> INDICES_PER_CARD,
                                     quads |-> <<>>,
                                     bound |-> w.s._batchTextures,
                                     mode |-> w.s._renderMode,
                                     blend |-> w.g.blend,
                                     config |-> "default"]),
              !.s._batchID = @ + 1]

(* StageGL._drawCover: one pass over the whole surface into the frame      *)
(* buffer of out (the canvas, null, when out has none), sampling dst and,  *)
(* when srcFilter is a texture, srcFilter.                                 *)
_drawCover(w, out, dst, srcFilter) ==
    [_renderCover(w) EXCEPT
        !.log.cv = Append(@, [out |-> IF out \in DOMAIN w.t /\ w.t[out]._frameBuffer
                                      THEN out ELSE null,
                              dst |-> dst, src |-> srcFilter])]

(* a pass into the output buffer that samples the concat buffer *)
CoverOutput(w, srcFilter) ==
    _drawCover(w, w.s._batchTextureOutput, w.s._batchTextureConcat, srcFilter)

-----------------------------------------------------------------------------
(* StageGL._updateTextureImageData: uploads the pixels of a loaded image   *)
(* into the texture the dictionary holds for it (gl.texImage2D, counted in *)
(* uploads of the texture and of the context) and clears its _invalid      *)
(* flag.  log.up holds the flag the call found.                            *)

_updateTextureImageData(w, im) ==
    LET tid == Lookup(w.s, w.i[im]._storeID)
    IN  IF tid = undefined
        THEN Throw(w)                   \* (undefined)._activeIndex
        ELSE [w EXCEPT !.i[im]._invalid = FALSE,
                       !.g.uploads = @ + 1,
                       !.t[tid].uploads = @ + 1,
                       !.log.up = Append(@, [image |-> im, texture |-> tid,
                                             invalid |-> w.i[im]._invalid])]

(* an upload for every texture that tracks an image, flagged or not *)
UploadIfStale_always(w, tid) ==
    LET data == w.t[tid]._imageData
    IN  IF data # NoData /\ Len(data) > 0
        THEN _updateTextureImageData(w, data[1])
        ELSE w

(* The test both branches of _insertTextureInBatch make before an upload:  *)
(* the first tracked image, when it is flagged invalid.                    *)
UploadIfStale(w, tid) ==
    LET data == w.t[tid]._imageData
    IN  IF data # NoData /\ Len(data) > 0 /\ w.i[data[1]]._invalid
        THEN _updateTextureImageData(w, data[1])
        ELSE w

(* The slot scan of _insertTextureInBatch: the first slot, in cyclic order *)
(* from start, whose occupant is not stamped with the current batch; -1    *)
(* when there is none.  (_slotBlacklist is never written: always empty.)   *)
Eligible(w, look) ==
    w.t[w.s._batchTextures[look]]._batchID # w.s._batchID

(* a scan that starts at the slot of the last insert *)
ScanStart_atLast(w) == w.s._lastTextureInsert % w.s._batchTextureCount

ScanStart(w) == (w.s._lastTextureInsert + 1) % w.s._batchTextureCount

ScanSlots(w, start) ==
    LET n == w.s._batchTextureCount
        order == [k \in 1..n |-> (start + k - 1) % n]
        hits == {k \in 1..n : Eligible(w, order[k])}
    IN  IF hits = {} THEN -1
        ELSE order[CHOOSE k \in hits : \A h \in hits : k <= h]

OccupantOf(w, index) ==
    IF index = undefined THEN undefined ELSE w.s._batchTextures[index]

(* a placement that does not record the slot on the texture *)
PlaceInSlot_unindexed(w, tid, found) ==
    [UploadIfStale([w EXCEPT !.s._batchTextures[found] = tid], tid)
        EXCEPT !.s._lastTextureInsert = found]

(* "lets put it into that spot" *)
PlaceInSlot(w, tid, found) ==
    [UploadIfStale([w EXCEPT !.s._batchTextures[found] = tid,
                             !.t[tid]._activeIndex = found], tid)
        EXCEPT !.s._lastTextureInsert = found]

(* "we couldn't find anywhere for it go, meaning we're maxed out": the     *)
(* forced flush, then the slot the scan started at.                        *)
FindSlot(w, tid, start, scan) ==
    IF scan = -1
    THEN PlaceInSlot(Call_renderBatch(w), tid, start)
    ELSE PlaceInSlot(w, tid, scan)

StampTexture(w, tid) ==
    [w EXCEPT !.t[tid]._drawID = w.s._drawID,
              !.t[tid]._batchID = w.s._batchID]

(* an insert that looks for a slot whether or not the texture has one *)
_insertTextureInBatch_rescan(w, tid) ==
    StampTexture(FindSlot(w, tid, ScanStart(w), ScanSlots(w, ScanStart(w))), tid)

(* StageGL._insertTextureInBatch *)
_insertTextureInBatch(w, tid) ==
    StampTexture(
        IF OccupantOf(w, w.t[tid]._activeIndex) # tid
        THEN FindSlot(w, tid, ScanStart(w), ScanSlots(w, ScanStart(w)))
        ELSE IF w.t[tid]._drawID # w.s._drawID
             THEN UploadIfStale(w, tid)
             ELSE w,
        tid)

(* A call of _insertTextureInBatch, with the slot table and the stamps it  *)
(* found (w) and the slot table and batch counter it left (r).             *)
Logged_insertTextureInBatch(w, r, tid) ==
    [r EXCEPT !.log.ins = Append(@, [texture |-> tid,
                                     before |-> w.s._batchTextures,
                                     stamps |-> Stamps(w.t),
                                     after |-> r.s._batchTextures,
                                     batchID |-> r.s._batchID,
                                     flushes |-> Len(r.log.rb) - Len(w.log.rb),
                                     entryBatchID |-> w.s._batchID,
                                     index |-> w.t[tid]._activeIndex,
                                     lastInsert |-> w.s._lastTextureInsert,
                                     slot |-> r.t[tid]._activeIndex,
                                     last |-> r.s._lastTextureInsert])]

Call_insertTextureInBatch(w, tid) ==
    Logged_insertTextureInBatch(w, _insertTextureInBatch(w, tid), tid)

-----------------------------------------------------------------------------
(* StageGL.getBaseTexture / _getSafeTexture: a new texture object.         *)
(* gl.createTexture() gives null when the context has no memory left       *)
(* (gl.exhausted); ret is the new texture, or the texture used in its      *)
(* place.                                                                  *)

NextTexture(t) == Cardinality(DOMAIN t)

AddTexture(t, object) ==
    t @@ (NextTexture(t) :> object)

_getSafeTexture(w) ==
    IF w.g.exhausted
    THEN [w EXCEPT !.ret = BaseTexture]
    ELSE [w EXCEPT !.t = AddTexture(w.t, NewTexture), !.ret = NextTexture(w.t)]

(* A call of _getSafeTexture: whether the creation failed, and the texture *)
(* that came back.                                                         *)
Call_getSafeTexture(w) ==
    [_getSafeTexture(w) EXCEPT
        !.log.ld = Append(@, [failed |-> w.g.exhausted,
                              texture |-> IF w.g.exhausted THEN BaseTexture
                                          ELSE NextTexture(w.t)])]

(* StageGL.getRenderBufferTexture: a texture with a frame buffer, which    *)
(* enters the dictionary under its own store id; undefined when no texture *)
(* could be created.                                                       *)
getRenderBufferTexture(w) ==
    IF w.g.exhausted
    THEN [w EXCEPT !.ret = undefined]
    ELSE [w EXCEPT !.t = AddTexture(w.t, [NewTexture EXCEPT
                                        !._frameBuffer = TRUE,
                                        !._storeID = Len(w.s._textureDictionary)]),
                   !.s._textureDictionary = Append(@, NextTexture(w.t)),
                   !.ret = NextTexture(w.t)]

(* The first branch of _loadTextureImage: the lookup key of the source, or *)
(* "" for the sources it rejects.                                          *)
SrcPath(im) ==
    IF ImageSpec[im].kind = "img" /\ ImageSpec[im].src # ""
    THEN ImageSpec[im].src
    ELSE ""

(* "create the texture lookup and texture", for a source seen for the      *)
(* first time; c is the state _getSafeTexture left.                        *)
RegisterSource(c, im, srcPath, storeID) ==
    [c EXCEPT !.s._textureIDs[srcPath] = storeID,
              !.i[im]._storeID = storeID,
              !.i[im]._invalid = TRUE,
              !.s._textureDictionary = Append(@, c.ret)]

(* "allow the texture to track its references for cleanup", "insert        *)
(* texture into batch", return texture                                     *)
TrackImage(w, im, storeID, tid) ==
    [Call_insertTextureInBatch(
        IF w.t[tid]._storeID # BaseStoreID
        THEN [w EXCEPT !.t[tid]._storeID = storeID,
                       !.t[tid]._imageData =
                            IF @ = NoData THEN <<im>> ELSE Append(@, im)]
        ELSE w,
        tid)
     EXCEPT !.ret = tid]

(* StageGL._loadTextureImage.  ret is the texture, undefined for a source  *)
(* that is rejected.                                                       *)
_loadTextureImage(w, im) ==
    IF SrcPath(im) = ""
    THEN [w EXCEPT !.ret = undefined]
    ELSE IF w.s._textureIDs[SrcPath(im)] = undefined
         THEN TrackImage(RegisterSource(Call_getSafeTexture(w), im, SrcPath(im),
                                        Len(w.s._textureDictionary)),
                         im, Len(w.s._textureDictionary),
                         IF w.g.exhausted THEN BaseTexture ELSE NextTexture(w.t))
         ELSE TrackImage([w EXCEPT !.i[im]._storeID = w.s._textureIDs[SrcPath(im)]],
                         im, w.s._textureIDs[SrcPath(im)],
                         Lookup(w.s, w.s._textureIDs[SrcPath(im)]))

-----------------------------------------------------------------------------
(* StageGL._killTextureObject: unlinks a texture from the dictionary, from *)
(* the images that use it and from its slot, and deletes it.               *)

UnlinkImages(i, data) ==
    [k \in DOMAIN i |->
        IF data # NoData /\ \E n \in DOMAIN data : data[n] = k
        THEN [i[k] EXCEPT !._storeID = undefined]
        ELSE i[k]]

(* "remove linkage" *)
RemoveLinkage(w, tid) ==
    LET tx == w.t[tid]
    IN  IF tx._storeID # undefined /\ tx._storeID >= 0
        THEN [w EXCEPT
                !.s._textureDictionary[tx._storeID + 1] = undefined,
                !.s._textureIDs =
                    [p \in DOMAIN @ |->
                        IF @[p] = tx._storeID THEN undefined ELSE @[p]],
                !.i = UnlinkImages(@, tx._imageData),
                !.t[tid]._imageData = NoData,
                !.t[tid]._storeID = undefined]
        ELSE w

(* "make sure to drop it out of an active slot" *)
DropFromSlot(w, tid) ==
    LET activeIndex == w.t[tid]._activeIndex
    IN  IF activeIndex # undefined /\ w.s._batchTextures[activeIndex] = tid
        THEN [w EXCEPT !.s._batchTextures[activeIndex] = BaseTexture]
        ELSE w

_killTextureObject(w, tid) ==
    IF tid = undefined
    THEN w
    ELSE [DropFromSlot(RemoveLinkage(w, tid), tid) EXCEPT
            !.t[tid]._frameBuffer = FALSE,
            !.t[tid].deleted = TRUE]

-----------------------------------------------------------------------------
(* StageGL._updateRenderMode *)

BlendFunc(m) ==
    [eqRGB |-> "FUNC_ADD", eqA |-> BLEND_SOURCES[m].eqA,
     srcRGB |-> BLEND_SOURCES[m].srcRGB, dstRGB |-> BLEND_SOURCES[m].dstRGB,
     srcA |-> BLEND_SOURCES[m].srcA, dstA |-> BLEND_SOURCES[m].dstA]

KnownMode(newMode) ==
    IF newMode = NoComp \/ newMode \notin (DOMAIN BLEND_SOURCES \cup ObjectPrototype)
    THEN "source-over"
    ELSE newMode

(* the shader data of the mode is built at its first use; an inherited    *)
(* name finds the inherited property and builds nothing                    *)
BuildShader(w, m) ==
    IF m \in DOMAIN BLEND_SOURCES
    THEN [w EXCEPT !.s._builtShaders = @ \cup {m}]
    ELSE w

(* gl.blendEquationSeparate and gl.blendFuncSeparate with the fields of    *)
(* the shader data.  The fields of an inherited property are undefined,    *)
(* which WebGL reads as 0: no blend equation (INVALID_ENUM, the equation   *)
(* stays) and the blend factor ZERO.                                       *)
BlendOf(blend, m) ==
    IF m \in DOMAIN BLEND_SOURCES
    THEN BlendFunc(m)
    ELSE [blend EXCEPT !.srcRGB = "ZERO", !.dstRGB = "ZERO",
                       !.srcA = "ZERO", !.dstA = "ZERO"]

UseMicroConfig(w, m) ==
    IF Immediate(m)
    THEN [w EXCEPT !.s._activeConfig = "micro"]
    ELSE w

SetMode(w, m) ==
    [w EXCEPT !.s._renderMode = m,
              !.s._immediateRender = Immediate(m),
              !.g.blend = BlendOf(@, m)]

(* a switch that sets the mode and the blend function before the flush *)
SwitchMode_early(w, m) ==
    IF w.s._renderMode = m
    THEN w
    ELSE IF Immediate(m) /\ w.s._directDraw
         THEN BuildShader(w, m)
         ELSE Call_renderBatch(SetMode(UseMicroConfig(BuildShader(w, m), m), m))

(* a switch without the test for direct draw *)
SwitchMode_anywhere(w, m) ==
    IF w.s._renderMode = m
    THEN w
    ELSE SetMode(Call_renderBatch(UseMicroConfig(BuildShader(w, m), m)), m)

(* the switch as coded: the flush, then the mode and the blend function *)
SwitchMode(w, m) ==
    IF w.s._renderMode = m
    THEN w
    ELSE IF Immediate(m) /\ w.s._directDraw
         THEN BuildShader(w, m)
         ELSE SetMode(Call_renderBatch(UseMicroConfig(BuildShader(w, m), m)), m)

_updateRenderMode(w, newMode) == SwitchMode(w, KnownMode(newMode))

(* A call of _updateRenderMode, with the state it found (w), the state it  *)
(* left (r) and the GPU submissions it made.                               *)
Logged_updateRenderMode(w, r, newMode) ==
    [r EXCEPT !.log.um = Append(@, [request |-> newMode, threw |-> r.threw,
                                    entry |-> View(w), exit |-> View(r),
                                    calls |-> SubSeq(r.g.calls, Len(w.g.calls) + 1,
                                                     Len(r.g.calls))])]

Call_updateRenderMode(w, newMode) ==
    Logged_updateRenderMode(w, _updateRenderMode(w, newMode), newMode)

(* if (this._renderMode !== mode) { this._updateRenderMode(mode); } *)
restoreRenderMode(w, mode) ==
    IF w.s._renderMode # mode
    THEN Call_updateRenderMode(w, mode)
    ELSE w

-----------------------------------------------------------------------------
(* StageGL._immediateBatchRender: the pending card is drawn into a swapped *)
(* buffer and mixed with what was drawn before by a cover pass.            *)

SetConcat(c) == [c EXCEPT !.s._batchTextureConcat = c.ret]

SetTemp(c) == [c EXCEPT !.s._batchTextureTemp = c.ret]

(* _batchTextureConcat: made when null; with undefined, the read of        *)
(* (undefined)._frameBuffer is a TypeError                                 *)
PrepareConcat(w) ==
    IF w.s._batchTextureConcat = null
    THEN SetConcat(getRenderBufferTexture(w))
    ELSE IF w.s._batchTextureConcat = undefined
         THEN Throw(w)
         ELSE w

PrepareTemp(w) ==
    IF w.threw THEN w
    ELSE IF w.s._batchTextureTemp = null
         THEN SetTemp(getRenderBufferTexture(w))
         ELSE IF w.s._batchTextureTemp = undefined
              THEN Throw(w)
              ELSE w

SwapAndRender(w) ==
    IF w.threw THEN w
    ELSE CoverOutput(Call_renderBatch(
                        [w EXCEPT !.s._batchTextureOutput = w.s._batchTextureConcat,
                                  !.s._batchTextureConcat = w.s._batchTextureOutput]),
                     w.s._batchTextureTemp)

_immediateBatchRender(w) == SwapAndRender(PrepareTemp(PrepareConcat(w)))

-----------------------------------------------------------------------------
(* StageGL.releaseTexture for a Bitmap or a raw image.  item.kind is       *)
(* "bitmap" (item.image is its image) or "image".                          *)

Remove(data, im) ==
    LET first == IF \E n \in DOMAIN data : data[n] = im
                 THEN CHOOSE n \in DOMAIN data :
                        data[n] = im /\ \A k \in DOMAIN data : data[k] = im => n <= k
                 ELSE 0
    IN  IF first = 0 THEN data
        ELSE SubSeq(data, 1, first - 1) \o SubSeq(data, first + 1, Len(data))

(* the image releaseTexture works on (undefined: none found) *)
FoundImage(w, item) ==
    IF item.kind = "image" /\ w.i[item.image]._storeID = undefined
    THEN undefined
    ELSE item.image

(* a texture without references that is left alone *)
KillIfUnused_never(w, tid) == w

KillIfUnused(w, tid) ==
    IF Len(w.t[tid]._imageData) = 0 THEN _killTextureObject(w, tid) ELSE w

(* the removal of a release that is not safe *)
RemoveTexture_unsafe(w, foundImage, tid, safe) == _killTextureObject(w, tid)

(* "remove it" *)
RemoveTexture(w, foundImage, tid, safe) ==
    IF safe
    THEN IF tid = undefined
         THEN Throw(w)                  \* (undefined)._imageData
         ELSE IF w.t[tid]._imageData = NoData
              THEN Throw(w)             \* (undefined).indexOf
              ELSE KillIfUnused(
                     [w EXCEPT !.t[tid]._imageData = Remove(@, foundImage),
                               !.i[foundImage]._storeID = undefined],
                     tid)
    ELSE _killTextureObject(w, tid)

releaseTexture(w, item, safe) ==
    IF FoundImage(w, item) = undefined
    THEN w
    ELSE RemoveTexture(w, FoundImage(w, item),
                       Lookup(w.s, w.i[FoundImage(w, item)]._storeID), safe)

(* A call of releaseTexture, with the texture and the sharers it found and *)
(* whether the texture is left in the dictionary and deleted.              *)
Logged_releaseTexture(w, r, item, safe, tid) ==
    [r EXCEPT !.log.rel =
        Append(@, [image |-> item.image, safe |-> safe, texture |-> tid,
                   sharers |-> IF tid = undefined THEN NoData ELSE w.t[tid]._imageData,
                   deleted |-> tid # undefined /\ r.t[tid].deleted,
                   listed |-> tid # undefined /\
                              \E n \in DOMAIN r.s._textureDictionary :
                                  r.s._textureDictionary[n] = tid])]

Call_releaseTexture(w, item, safe) ==
    Logged_releaseTexture(w, releaseTexture(w, item, safe), item, safe,
                          Lookup(w.s, w.i[item.image]._storeID))

-----------------------------------------------------------------------------
(* StageGL.purgeTextures: drops the image references not drawn for count   *)
(* draws and kills the textures left without one.                          *)

(* item._drawID + count <= this._drawID *)
Old(w, im, count) ==
    /\ w.i[im]._drawID # undefined
    /\ w.i[im]._drawID + count <= w.s._drawID

(* a pass over the references that drops the first old one only *)
DropOld_first(w, tid, count) ==
    LET data == w.t[tid]._imageData
        olds == {o \in DOMAIN data : Old(w, data[o], count)}
        f == CHOOSE o \in olds : \A p \in olds : o <= p
    IN  IF olds = {} THEN w
        ELSE [w EXCEPT !.i[data[f]]._storeID = undefined,
                       !.t[tid]._imageData = SubSeq(data, 1, f - 1) \o
                                             SubSeq(data, f + 1, Len(data))]

DropOld(w, tid, count) ==
    LET data == w.t[tid]._imageData
    IN  [w EXCEPT
            !.i = [k \in DOMAIN @ |->
                     IF \E o \in DOMAIN data : data[o] = k /\ Old(w, k, count)
                     THEN [@[k] EXCEPT !._storeID = undefined]
                     ELSE @[k]],
            !.t[tid]._imageData = SelectSeq(data, LAMBDA im : ~Old(w, im, count))]

RECURSIVE PurgeFrom(_, _, _)
PurgeFrom(w, n, count) ==
    IF n > Len(w.s._textureDictionary) THEN w
    ELSE IF w.s._textureDictionary[n] = undefined
            \/ w.t[w.s._textureDictionary[n]]._imageData = NoData
         THEN PurgeFrom(w, n + 1, count)
         ELSE PurgeFrom(KillIfUnused(DropOld(w, w.s._textureDictionary[n], count),
                                     w.s._textureDictionary[n]),
                        n + 1, count)

purgeTextures(w, count) ==
    PurgeFrom(w, 1, IF count >= 0 THEN count ELSE 100)

(* A call of purgeTextures, with the stage, the textures and the images it *)
(* found (w) and left (r); again: the call before it was a purge of the    *)
(* same count.                                                             *)
Logged_purgeTextures(w, r, count, again) ==
    [r EXCEPT !.log.pg = Append(@, [count |-> count, again |-> again,
                                    entry |-> [s |-> w.s, t |-> w.t, i |-> w.i],
                                    exit |-> [s |-> r.s, t |-> r.t, i |-> r.i]])]

Call_purgeTextures(w, count, again) ==
    Logged_purgeTextures(w, purgeTextures(w, count), count, again)

-----------------------------------------------------------------------------
(* StageGL._appendToBatch, the body of its loop for one child that is not  *)
(* a container.                                                            *)

(* an overflow test that lets the cursor reach past the capacity first *)
checkOverflow_late(w) ==
    IF w.s._batchVertexCount > w.s._maxBatchVertexCount
    THEN Call_renderBatch(w)
    ELSE w

(* "check for overflowing batch, if yes then force a render" *)
checkOverflow(w) ==
    IF w.s._batchVertexCount + INDICES_PER_CARD > w.s._maxBatchVertexCount
    THEN Call_renderBatch(w)
    ELSE w

Returning(w, value) == [w EXCEPT !.ret = value]

(* texture = this._loadTextureImage(gl, image), whose _activeIndex is read *)
(* next: a TypeError when no texture came back                             *)
LoadOrThrow(l) == IF l.ret = undefined THEN Throw(l) ELSE l

(* the texture of an image that has a store id; ret undefined: the         *)
(* continue for a store id with no texture behind it                       *)
FetchKnown(w, tid) ==
    IF tid = undefined
    THEN Returning(w, undefined)
    ELSE IF w.t[tid]._batchID # w.s._batchID
         THEN Returning(Call_insertTextureInBatch(w, tid), tid)
         ELSE Returning(w, tid)

(* image._drawID = this._drawID *)
StampImage(w, im) ==
    IF w.ret = undefined THEN w
    ELSE [w EXCEPT !.i[im]._drawID = w.s._drawID]

(* "calculate texture": ret is the texture of the image.                   *)
fetchTexture(w, im) ==
    StampImage(
        IF w.i[im]._storeID = undefined
        THEN LoadOrThrow(_loadTextureImage(w, im))
        ELSE FetchKnown(w, Lookup(w.s, w.i[im]._storeID)),
        im)

(* "apply vertices", "apply uvs", "apply texture", "apply alpha": the six  *)
(* vertices of one card written at the cursor, which then advances.        *)
(* One vertex attribute of a layout: the length of its Float32Array, the   *)
(* distance between two vertices in it and where the first one starts.     *)
Attribute(length, spacing, offset) ==
    [length |-> length, spacing |-> spacing, offset |-> offset]

AttributeNames == {"position", "uv", "texture", "alpha"}

(* the floats _appendToBatch writes per vertex: x and y, u and v, the slot *)
(* index, the alpha                                                        *)
FloatsOf(name) == IF name \in {"position", "uv"} THEN 2 ELSE 1

(* StageGL._createBuffers: the default layout has one array per attribute  *)
(* for groupCount = this._maxBatchVertexCount vertices, the micro layout   *)
(* one array of 5 groups of 2 + 2 + 1 + 1 floats for all four.             *)
_createBuffers(w) ==
    [w EXCEPT !.s._attributeConfig =
        [default |->
            [position |-> Attribute(w.s._maxBatchVertexCount * 2, 2, 0),
             uv |-> Attribute(w.s._maxBatchVertexCount * 2, 2, 0),
             texture |-> Attribute(w.s._maxBatchVertexCount * 1, 1, 0),
             alpha |-> Attribute(w.s._maxBatchVertexCount * 1, 1, 0)],
         micro |->
            [position |-> Attribute(5 * (2 + 2 + 1 + 1), 2 + 2 + 1 + 1, 0),
             uv |-> Attribute(5 * (2 + 2 + 1 + 1), 2 + 2 + 1 + 1, 2),
             texture |-> Attribute(5 * (2 + 2 + 1 + 1), 2 + 2 + 1 + 1, 4),
             alpha |-> Attribute(5 * (2 + 2 + 1 + 1), 2 + 2 + 1 + 1, 5)]],
              !.s._activeConfig = "default"]

(* "calculate vertices": subR and subB of a Bitmap (subL and subT are 0)   *)
SubR(item) ==
    IF item.sourceRect # <<>> THEN item.sourceRect[1].width
    ELSE ImageSize(item.image).width

SubB(item) ==
    IF item.sourceRect # <<>> THEN item.sourceRect[1].height
    ELSE ImageSize(item.image).height

writeQuad(w, item, iMtx, tid, alpha) ==
    [w EXCEPT !.s.batch = Append(@, [id |-> item.id, texture |-> tid,
                                     texIndex |-> w.t[tid]._activeIndex,
                                     alpha |-> alpha,
                                     vertices |-> Card(iMtx, 0, 0, SubR(item), SubB(item)),
                                     mode |-> w.s._renderMode,
                                     config |-> w.s._activeConfig]),
              !.s._batchVertexCount = @ + INDICES_PER_CARD]

(* the array indices the six vertices of a card are written at, in the    *)
(* array of one attribute of the active layout: from                       *)
(* _batchVertexCount * spacing + offset on, spacing apart                  *)
WrittenAt(w, name) ==
    LET cfg == w.s._attributeConfig[w.s._activeConfig][name]
    IN  {w.s._batchVertexCount * cfg.spacing + cfg.offset + v * cfg.spacing + f :
            v \in 0..(INDICES_PER_CARD - 1), f \in 0..(FloatsOf(name) - 1)}

Call_writeQuad(w, item, iMtx, tid, alpha) ==
    [writeQuad(w, item, iMtx, tid, alpha) EXCEPT
        !.log.wr = Append(@, [id |-> item.id,
                              written |-> [name \in AttributeNames |-> WrittenAt(w, name)],
                              lengths |-> [name \in AttributeNames |->
                                    w.s._attributeConfig[w.s._activeConfig][name].length],
                              vertices |-> Card(iMtx, 0, 0, SubR(item), SubB(item)),
                              subR |-> SubR(item), subB |-> SubB(item),
                              config |-> w.s._activeConfig,
                              cursor |-> w.s._batchVertexCount,
                              capacity |-> w.s._maxBatchVertexCount,
                              texture |-> tid,
                              texIndex |-> w.t[tid]._activeIndex,
                              slots |-> w.s._batchTextures,
                              immediate |-> w.s._immediateRender,
                              flushes |-> Len(w.log.rb)])]

(* if (this._immediateRender) { ... this._immediateBatchRender(); } *)
immediateRender(w) ==
    IF w.s._immediateRender
    THEN _immediateBatchRender([w EXCEPT !.s._activeConfig = "default"])
    ELSE w

(* the end of a turn that wrote a card: the mode the turn started in is    *)
(* put back                                                                *)
endTurn(w, containerRenderMode) ==
    IF w.threw THEN w ELSE restoreRenderMode(w, containerRenderMode)

(* a turn from "calculate texture" on; w is the state fetchTexture left    *)
writeItem(w, item, iMtx, concatAlpha, containerRenderMode) ==
    IF w.threw \/ w.ret = undefined
    THEN w
    ELSE endTurn(immediateRender(
                    Call_writeQuad(w, item, iMtx, w.ret, item.alpha * concatAlpha)),
                 containerRenderMode)

(* "get the image data, or abort if not present": only a Bitmap has any    *)
selectImage(w, item, iMtx, concatAlpha, containerRenderMode) ==
    IF item.style # 2
    THEN w
    ELSE writeItem(fetchTexture(w, item.image), item, iMtx, concatAlpha,
                   containerRenderMode)

itemRenderMode(w, item) ==
    IF item.compositeOperation # NoComp
    THEN Call_updateRenderMode(w, item.compositeOperation)
    ELSE w

(* "keep track of concatenated position": iMtx is cMtx with the transform  *)
(* of the item appended                                                    *)
appendLeaf(w, item, cMtx, concatAlpha) ==
    selectImage(checkOverflow(itemRenderMode(w, item)), item,
                Concatenated(cMtx, item.transform), concatAlpha, w.s._renderMode)

-----------------------------------------------------------------------------
(* The state after construction: the class field initialisers, then        *)
(* _initializeWebGL (_initMaterials, _updateRenderMode("source-over"), the *)
(* output buffer of a stage that does not draw directly), then the vertex  *)
(* capacity.                                                               *)

(* The batchSize option (batchSize?: string|number).  Numbers are held in   *)
(* halves, so that 170.5 is 341: a number is [type, text, halves], a       *)
(* string is the text of a number (halves its value), the empty string or  *)
(* a text that is no number, and a missing option is undefined.            *)
NumberOption(halves) == [type |-> "number", text |-> "", halves |-> halves]
StringOption(text, halves) == [type |-> "string", text |-> text, halves |-> halves]
UndefinedOption == [type |-> "undefined", text |-> "", halves |-> 0]

(* Number(batchSize): NaN for undefined and for a text that is no number,  *)
(* 0 for the empty string, the value otherwise.                            *)
Number(value) ==
    CASE value.type = "number" -> [nan |-> FALSE, halves |-> value.halves]
      [] value.type = "string" /\ value.text = "numeric"
            -> [nan |-> FALSE, halves |-> value.halves]
      [] value.type = "string" /\ value.text = "empty"
            -> [nan |-> FALSE, halves |-> 0]
      [] OTHER -> [nan |-> TRUE, halves |-> 0]

(* Math.max(Math.min(Number(batchSize) || DEFAULT_MAX_BATCH_SIZE,            *)
(* DEFAULT_MAX_BATCH_SIZE), DEFAULT_MIN_BATCH_SIZE) * INDICES_PER_CARD,    *)
(* computed on halves: NaN and 0 are the falsy numbers.                    *)
MaxBatchVertexCount_keepsZero(batchSize) ==
    (Max(Min(IF Number(batchSize).nan
                THEN 2 * DEFAULT_MAX_BATCH_SIZE
                ELSE Number(batchSize).halves,
             2 * DEFAULT_MAX_BATCH_SIZE),
         2 * DEFAULT_MIN_BATCH_SIZE) * INDICES_PER_CARD) \div 2

MaxBatchVertexCount(batchSize) ==
    (Max(Min(IF Number(batchSize).nan \/ Number(batchSize).halves = 0
                THEN 2 * DEFAULT_MAX_BATCH_SIZE
                ELSE Number(batchSize).halves,
             2 * DEFAULT_MAX_BATCH_SIZE),
         2 * DEFAULT_MIN_BATCH_SIZE) * INDICES_PER_CARD) \div 2

(* The vertex capacity for a whole-number batchSize option (0: not given). *)
BatchVertexCount(batchSize) ==
    MaxBatchVertexCount(IF batchSize = 0 THEN UndefinedOption
                        ELSE NumberOption(2 * batchSize))

FieldInitialisers(directDraw) ==
    [_directDraw |-> directDraw,
     _autoPurge |-> DEFAULT_AUTO_PURGE,
     isCacheControlled |-> FALSE,
     _maxBatchVertexCount |-> 0,
     _viewportWidth |-> 0,
     _viewportHeight |-> 0,
     _attributeConfig |-> <<>>,
     _activeConfig |-> "default",
     _bufferTextureOutput |-> undefined,
     _bufferTextureConcat |-> undefined,
     _bufferTextureTemp |-> undefined,
     _batchTextureOutput |-> THIS,
     _batchTextureConcat |-> undefined,
     _batchTextureTemp |-> undefined,
     _builtShaders |-> {},
     _textureDictionary |-> <<>>,
     _textureIDs |-> [p \in Srcs |-> undefined],
     _batchTextures |-> <<>>,
     _gpuTextureCount |-> 8,
     _batchTextureCount |-> 0,
     _lastTextureInsert |-> -1,
     _renderMode |-> "",
     _immediateRender |-> FALSE,
     _batchVertexCount |-> 0,
     _batchID |-> 0,
     _drawID |-> 0,
     _renderPerDraw |-> 0,
     batch |-> <<>>]

(* StageGL._initMaterials, for a hardware with n texture units whose batch *)
(* shader compiles at the first attempt.                                   *)
_initMaterials(w, n) ==
    [w EXCEPT !.s._lastTextureInsert = -1,
              !.s._textureDictionary = <<>>,
              !.s._textureIDs = [p \in Srcs |-> undefined],
              !.s._gpuTextureCount = n,
              !.s._batchTextureCount = n,
              !.t = [k \in {BaseTexture} |-> [NewTexture EXCEPT !._storeID = BaseStoreID]],
              !.s._batchTextures = [k \in 0..(n - 1) |-> BaseTexture]]

SetOutput(c) == [c EXCEPT !.s._bufferTextureOutput = c.ret]

(* if (!this._directDraw) { this._bufferTextureOutput = ... } *)
OutputBuffer(w) ==
    IF w.s._directDraw THEN w ELSE SetOutput(getRenderBufferTexture(w))

(* StageGL._updateDrawingSurface *)
_updateDrawingSurface(w, width, height) ==
    [w EXCEPT !.s._viewportWidth = width, !.s._viewportHeight = height]

(* StageGL.updateViewport: Math.abs(width|0) || 1, for whole numbers *)
updateViewport(w, width, height) ==
    _updateDrawingSurface(w,
        IF width = 0 THEN 1 ELSE IF width < 0 THEN -width ELSE width,
        IF height = 0 THEN 1 ELSE IF height < 0 THEN -height ELSE height)

_initializeWebGL(w, n) ==
    OutputBuffer(updateViewport(
        _updateRenderMode(_initMaterials(_createBuffers(w), n), "source-over"),
        CanvasWidth, CanvasHeight))

(* the instance before the constructor body runs *)
Fresh(directDraw) ==
    [s |-> FieldInitialisers(directDraw),
     t |-> [k \in {} |-> NewTexture],
     i |-> [k \in Images |->
              [_storeID |-> undefined, _invalid |-> FALSE,
               _drawID |-> undefined]],
     g |-> [blend |-> BlendFunc("source-over"), calls |-> <<>>, uploads |-> 0,
            exhausted |-> FALSE],
     log |-> EmptyLog, threw |-> FALSE, ret |-> undefined]

Constructed(n, directDraw, batchSize) ==
    [_initializeWebGL(Fresh(directDraw), n)
     EXCEPT !.s._maxBatchVertexCount = BatchVertexCount(batchSize)]

(* The loop of _initMaterials that settles the slot count: pc is "try"     *)
(* before an attempt, "done" after the one that compiled, "threw" after    *)
(* the throw; compiles are the counts the batch shader compiles with on    *)
(* this hardware, tried the counts attempted so far.                       *)
Booted(n) ==
    [pc |-> "done", _gpuTextureCount |-> n, _batchTextureCount |-> n,
     compiles |-> {n}, tried |-> <<n>>]

NoFrame ==
    [op |-> "new", status |-> "ok", item |-> undefined, image |-> 0,
     storeBatchOutput |-> undefined,
     storeBatchConcat |-> undefined, storeBatchTemp |-> undefined,
     startBatchID |-> 0, filterCount |-> 0, _cacheCanvas |-> undefined,
     managerOutput |-> undefined, backupWidth |-> 0, backupHeight |-> 0,
     base |-> 1, outer |-> <<>>, useCache |-> undefined]

(* a BitmapCache that has no buffers *)
NoCache ==
    [_bufferTextureOutput |-> null, _bufferTextureConcat |-> null,
     _bufferTextureTemp |-> null, updates |-> 0]

Start(w) ==
    /\ stage = w.s
    /\ tex = w.t
    /\ img = w.i
    /\ gl = w.g
    /\ children = <<>>
    /\ stack = <<>>
    /\ pc = "idle"
    /\ log = EmptyLog
    /\ frame = NoFrame
    /\ nodes = [n \in 1..MaxNodes |-> [parent |-> undefined, children |-> <<>>]]

Init ==
    \E n \in 1..MaxSlots, directDraw \in BOOLEAN :
        /\ Start(Constructed(n, directDraw, 0))
        /\ boot = Booted(n)
        /\ cache = NoCache

-----------------------------------------------------------------------------
(* The running call.  World is the state the next step starts from; Commit *)
(* stores what it leaves.  log holds what the calls of the last step did.  *)

World ==
    [s |-> stage, t |-> tex, i |-> img, g |-> gl, log |-> EmptyLog,
     threw |-> FALSE, ret |-> undefined]

Commit(w) ==
    /\ stage' = w.s
    /\ tex' = w.t
    /\ img' = w.i
    /\ gl' = w.g
    /\ log' = w.log
    /\ UNCHANGED <<boot, cache, nodes>>

(* One activation of _appendToBatch: its container, the loop index i (from *)
(* 1), and its locals previousRenderMode and concatAlpha.                  *)
Activation(node, concatMtx, mode, alpha) ==
    [node |-> node, i |-> 1, cMtx |-> Concatenated(concatMtx, node.transform),
     previousRenderMode |-> mode, concatAlpha |-> alpha]

(* the stage as the container _drawContent hands to _appendToBatch *)
StageNode(list) == Container(0, NoComp, TRUE, 1, list)

Top == stack[Len(stack)]
Item == Top.node.children[Top.i]
InLoop == pc = "loop" /\ Top.i <= Len(Top.node.children)
AtEnd == pc = "loop" /\ Top.i > Len(Top.node.children)
Advance(st) == [st EXCEPT ![Len(st)].i = @ + 1]
Pop(st) == SubSeq(st, 1, Len(st) - 1)

(* item.visible && concatAlpha > 0.0035, for alphas that are 0 or 1 *)
Drawn(item, concatAlpha) == item.visible /\ concatAlpha > 0

(* !this._directDraw && (!ignoreCache && item.cacheCanvas === null &&      *)
(* item.filters && item.filters.length): ignoreCache is true in cacheDraw; *)
(* frame.useCache is useCache, set once the cache of the item is drawn     *)
Interrupts(item) ==
    /\ frame.op = "draw"
    /\ ~stage._directDraw
    /\ item.filters > 0
    /\ frame.useCache = undefined

(* the targets of the batch and the size of the drawing surface *)
Targets(s) ==
    [output |-> s._batchTextureOutput, concat |-> s._batchTextureConcat,
     temp |-> s._batchTextureTemp]

Surface(s) == [width |-> s._viewportWidth, height |-> s._viewportHeight]

Stored(f) ==
    [output |-> f.storeBatchOutput, concat |-> f.storeBatchConcat,
     temp |-> f.storeBatchTemp]

(* A return of draw or cacheDraw, with the targets (and, for cacheDraw,    *)
(* the surface) found on entry and left on return.                         *)
Returned(w, f) ==
    [w EXCEPT !.log.fr = Append(@,
        IF f.op = "draw"
        THEN [op |-> f.op, nested |-> FALSE,
              entry |-> Stored(f), exit |-> Targets(w.s)]
        ELSE [op |-> f.op, nested |-> f.outer # <<>>,
              entry |-> Stored(f), exit |-> Targets(w.s),
              entrySurface |-> [width |-> f.backupWidth, height |-> f.backupHeight],
              exitSurface |-> Surface(w.s)])]

(* draw: the counters of the new frame and the buffers it renders into *)
beginDraw(w) ==
    [w EXCEPT
        !.g.calls = <<>>,
        !.g.uploads = 0,
        !.s._renderPerDraw = 0,
        !.s._batchVertexCount = 0,
        !.s.batch = <<>>,
        !.s._drawID = @ + 1,
        !.s._batchTextureOutput =
            IF w.s._directDraw THEN THIS ELSE w.s._bufferTextureOutput,
        !.s._batchTextureConcat =
            IF w.s._directDraw THEN @ ELSE w.s._bufferTextureConcat,
        !.s._batchTextureTemp =
            IF w.s._directDraw THEN @ ELSE w.s._bufferTextureTemp]

(* _drawContent: the outermost call of _appendToBatch starts in the mode   *)
(* the draw set                                                            *)
EnterStage(w, list) ==
    /\ Commit(w)
    /\ stack' = <<Activation(StageNode(list), identity, w.s._renderMode, 1)>>

(* StageGL.draw up to the loop of _appendToBatch over the stage's children *)
StartDraw(list) ==
    /\ EnterStage(Call_updateRenderMode(beginDraw(World), "source-over"), list)
    /\ frame' = [NoFrame EXCEPT
                    !.op = "draw", !.status = "running",
                    !.storeBatchOutput = stage._batchTextureOutput,
                    !.storeBatchConcat = stage._batchTextureConcat,
                    !.storeBatchTemp = stage._batchTextureTemp,
                    !.startBatchID = stage._batchID]
    /\ children' = list
    /\ pc' = "loop"

draw(list) ==
    /\ pc = "idle"
    /\ stage._drawID < MaxDraws
    /\ StartDraw(list)

(* _appendToBatch: a child that is not visible, or under a transparent     *)
(* container                                                               *)
skipChild ==
    /\ InLoop
    /\ ~Drawn(Item, Top.concatAlpha)
    /\ stack' = Advance(stack)
    /\ log' = EmptyLog
    /\ UNCHANGED <<stage, tex, img, gl, children, pc, frame, boot, cache, nodes>>

(* _appendToBatch: a child with children; the recursive call up to its loop *)
enterContainer ==
    /\ InLoop
    /\ Drawn(Item, Top.concatAlpha)
    /\ ~Interrupts(Item)
    /\ Item.isContainer
    /\ Commit(itemRenderMode(World, Item))
    /\ stack' = Append(Advance(stack),
                       Activation(Item, Top.cMtx, stage._renderMode,
                                  Item.alpha * Top.concatAlpha))
    /\ UNCHANGED <<children, pc, frame>>

(* How a turn of the loop ends: on to the next child, or out of draw() by  *)
(* the exception, which nothing catches.                                   *)
Turned(w) ==
    /\ Commit(w)
    /\ IF w.threw
       THEN /\ pc' = "idle"
            /\ stack' = <<>>
            /\ frame' = [frame EXCEPT !.status = "threw", !.item = Item.id,
                                       !.image = Item.image]
       ELSE /\ pc' = "loop"
            /\ stack' = Advance(stack)
            /\ frame' = [frame EXCEPT !.item = Item.id, !.image = Item.image,
                                       !.useCache = undefined]

(* _appendToBatch: one turn of the loop for a child without children *)
appendItem ==
    /\ InLoop
    /\ Drawn(Item, Top.concatAlpha)
    /\ ~Interrupts(Item)
    /\ ~Item.isContainer
    /\ Turned(appendLeaf(World, Item, Top.cMtx, Top.concatAlpha))
    /\ UNCHANGED children

(* _appendToBatch: the end of a recursive call *)
exitContainer ==
    /\ AtEnd
    /\ Len(stack) > frame.base
    /\ Commit(restoreRenderMode(World, Top.previousRenderMode))
    /\ stack' = Pop(stack)
    /\ UNCHANGED <<children, pc, frame>>

(* draw: if (!this._directDraw && this._renderPerDraw !== 0) _drawCover *)
finalOutput(w) ==
    IF ~w.s._directDraw /\ w.s._renderPerDraw # 0
    THEN _drawCover(w, null, w.s._batchTextureOutput, undefined)
    ELSE w

(* draw: "batches may generate or swap around textures. To be sure we      *)
(* capture them, store them back", then the caller's buffers are put back  *)
storeBuffers(w, store) ==
    [w EXCEPT
        !.s._bufferTextureOutput = w.s._batchTextureOutput,
        !.s._bufferTextureConcat = w.s._batchTextureConcat,
        !.s._bufferTextureTemp = w.s._batchTextureTemp,
        !.s._batchTextureOutput = store.storeBatchOutput,
        !.s._batchTextureConcat = store.storeBatchConcat,
        !.s._batchTextureTemp = store.storeBatchTemp]

(* (value / 2) | 0: ToInt32 of the half, which is the floor of the half    *)
(* below 2^32 and 0 for Infinity                                           *)
HalfInt32(value) == IF value = Infinity THEN 0 ELSE value \div 2

(* this._autoPurge !== -1 && !(this._drawID % ((this._autoPurge / 2) | 0)) *)
(* (x % 0 is NaN, and !NaN is true)                                        *)
PurgeDue(s) ==
    /\ s._autoPurge # -1
    /\ \/ HalfInt32(s._autoPurge) = 0
       \/ s._drawID % Max(HalfInt32(s._autoPurge), 1) = 0

autoPurge(w) ==
    IF PurgeDue(w.s) THEN Call_purgeTextures(w, w.s._autoPurge, FALSE) ELSE w

(* The end of the outermost _appendToBatch, the rest of _drawContent and   *)
(* the rest of draw.                                                       *)
finishDraw ==
    /\ AtEnd
    /\ Len(stack) = 1
    /\ frame.op = "draw"
    /\ Commit(Returned(autoPurge(storeBuffers(finalOutput(Call_renderBatch(
                restoreRenderMode(World, Top.previousRenderMode))), frame)), frame))
    /\ stack' = <<>>
    /\ pc' = "idle"
    /\ frame' = [frame EXCEPT !.status = "ok", !.item = undefined, !.image = 0]
    /\ UNCHANGED children

(* What the application hands to releaseTexture: an image, or the Bitmap   *)
(* that shows it.                                                          *)
ReleaseItems ==
    {[kind |-> "image", image |-> 1], [kind |-> "image", image |-> 4],
     [kind |-> "bitmap", image |-> 1]}

Ended(op, w) ==
    [NoFrame EXCEPT !.op = op, !.status = IF w.threw THEN "threw" ELSE "ok"]

Return(op, w) ==
    /\ Commit(w)
    /\ frame' = Ended(op, w)

release(item, safe) ==
    /\ pc = "idle"
    /\ Return("release", Call_releaseTexture(World, item, safe))
    /\ UNCHANGED <<children, stack, pc>>

PurgeCounts == {0, 1, 2}

purge(count) ==
    /\ pc = "idle"
    /\ Return("purge",
              Call_purgeTextures(World, count,
                                 /\ frame.op = "purge"
                                 /\ Len(log.pg) = 1
                                 /\ log.pg[1].count = count))
    /\ UNCHANGED <<children, stack, pc>>

Next ==
    \/ \E k \in SceneIds : draw(Scenes[k])
    \/ skipChild
    \/ enterContainer
    \/ appendItem
    \/ exitContainer
    \/ finishDraw
    \/ \E item \in ReleaseItems, safe \in BOOLEAN : release(item, safe)
    \/ \E count \in PurgeCounts : purge(count)

Spec == Init /\ [][Next]_vars


(* A series of draws of loaded and unloaded images, with no purge and no    *)
(* release in between.                                                     *)
StabilityScenes ==
    <<  <<B(1, 1), B(2, 2)>>,
        <<B(2, 2), B(4, 4)>>,
        <<B(7, 2)>>,
        <<B(3, 3), B(1, 1)>>,
        Scenes[1],
        Scenes[2]  >>

NextDraws ==
    \/ \E k \in DOMAIN StabilityScenes : draw(StabilityScenes[k])
    \/ appendItem
    \/ finishDraw

SpecDraws == Init /\ [][NextDraws]_vars

(* new StageGL(canvas, {batchSize}): the option is drawn at the start, the  *)
(* constructor runs once.  The options are the numbers around zero and the *)
(* two clamp limits (whole and fractional), Infinity, their texts, the     *)
(* empty string, a text that is no number, and no option at all.           *)
BatchSizeMargin == 8

BatchSizeHalves ==
    (-BatchSizeMargin)..BatchSizeMargin
    \cup (2 * DEFAULT_MIN_BATCH_SIZE - BatchSizeMargin)
            ..(2 * DEFAULT_MIN_BATCH_SIZE + BatchSizeMargin)
    \cup (2 * DEFAULT_MAX_BATCH_SIZE - BatchSizeMargin)
            ..(2 * DEFAULT_MAX_BATCH_SIZE + BatchSizeMargin)
    \cup {2 * Infinity}

BatchSizeOptions ==
    {NumberOption(h) : h \in BatchSizeHalves}
    \cup {StringOption("numeric", h) : h \in BatchSizeHalves}
    \cup {StringOption("empty", 0), StringOption("other", 0), UndefinedOption}

InitBatchSize ==
    \E batchSize \in BatchSizeOptions :
        /\ Start(Fresh(TRUE))
        /\ boot = [pc |-> "new", batchSize |-> batchSize]
        /\ cache = NoCache

construct ==
    /\ boot.pc = "new"
    /\ boot' = [boot EXCEPT !.pc = "constructed"]
    /\ stage' = [_initializeWebGL(Fresh(TRUE), 1).s
                 EXCEPT !._maxBatchVertexCount = MaxBatchVertexCount(boot.batchSize)]
    /\ tex' = _initializeWebGL(Fresh(TRUE), 1).t
    /\ gl' = _initializeWebGL(Fresh(TRUE), 1).g
    /\ UNCHANGED <<img, children, stack, pc, log, frame, cache, nodes>>

NextBatchSize == construct

SpecBatchSize == InitBatchSize /\ [][NextBatchSize]_vars

(* A stage of the smallest vertex capacity drawing the large display list. *)
InitCapacity ==
    /\ Start(Constructed(1, TRUE, DEFAULT_MIN_BATCH_SIZE))
    /\ boot = Booted(1)
    /\ cache = NoCache

NextCapacity ==
    \/ draw(BigScene)
    \/ appendItem
    \/ finishDraw

SpecCapacity == InitCapacity /\ [][NextCapacity]_vars

(* Display lists that request a blend mode by its name, at the top level   *)
(* and inside a container with a mode of its own, with a card pending.     *)
ModeNames == {"lighter", "multiply", "not-a-real-mode", "toString"}

ModeScene(name, nested) ==
    IF nested
    THEN <<B(1, 1),
           Container(10, "lighter", TRUE, 1,
                     <<B(3, 3), Bitmap(2, 2, name, TRUE, 1), B(4, 4)>>)>>
    ELSE <<B(1, 1), Bitmap(2, 2, name, TRUE, 1), B(3, 3)>>

ModeScenes == {ModeScene(name, nested) : name \in ModeNames, nested \in BOOLEAN}

NextModes ==
    \/ \E list \in ModeScenes : draw(list)
    \/ enterContainer
    \/ appendItem
    \/ exitContainer
    \/ finishDraw

SpecModes == Init /\ [][NextModes]_vars

(* Display lists whose nodes are moved, scaled and given a registration    *)
(* point or a transform matrix: a Bitmap under two containers, a Bitmap    *)
(* with a sourceRect under one, and a Bitmap on the stage.                 *)
Transforms ==
    {NoTransform,
     [NoTransform EXCEPT !.x = 3, !.y = -2],
     [NoTransform EXCEPT !.scaleX = 2, !.scaleY = 3, !.regX = 1, !.regY = 2],
     [NoTransform EXCEPT !.x = 5, !.scaleX = -1, !.scaleY = 2, !.regY = 1],
     [NoTransform EXCEPT !.transformMatrix = <<identity>>],
     [NoTransform EXCEPT !.transformMatrix = <<Matrix2D(1, 1, 0, 1, 2, 0)>>],
     [NoTransform EXCEPT !.x = 7, !.transformMatrix = <<Matrix2D(0, 1, -1, 0, 4, 1)>>]}

(* a Bitmap and a Container with a transform *)
BitmapAt(id, image, transform, sourceRect) ==
    [id |-> id, style |-> 2, isContainer |-> FALSE, image |-> image,
     compositeOperation |-> NoComp, visible |-> TRUE, alpha |-> 1,
     children |-> <<>>, transform |-> transform, sourceRect |-> sourceRect,
     filters |-> 0]

ContainerAt(id, transform, kids) ==
    [id |-> id, style |-> 0, isContainer |-> TRUE, image |-> 0,
     compositeOperation |-> NoComp, visible |-> TRUE, alpha |-> 1,
     children |-> kids, transform |-> transform, sourceRect |-> <<>>,
     filters |-> 0]

GeometryScene(outer, inner, leaf) ==
    <<ContainerAt(10, outer,
        <<ContainerAt(11, inner, <<BitmapAt(1, 1, leaf, <<>>)>>),
          BitmapAt(2, 2, inner, <<[x |-> 1, y |-> 1, width |-> 2, height |-> 1]>>)>>),
      BitmapAt(3, 3, outer, <<>>)>>

GeometryScenes ==
    {GeometryScene(outer, inner, leaf) :
        outer \in Transforms, inner \in Transforms, leaf \in Transforms}

NextGeometry ==
    \/ \E list \in GeometryScenes : draw(list)
    \/ enterContainer
    \/ appendItem
    \/ exitContainer
    \/ finishDraw

SpecGeometry == Init /\ [][NextGeometry]_vars

(* The context runs out of texture memory, or gets some back: from then on *)
(* gl.createTexture() gives null, or a texture again.                      *)
exhaust ==
    /\ gl' = [gl EXCEPT !.exhausted = ~@]
    /\ log' = EmptyLog
    /\ UNCHANGED <<stage, tex, img, children, stack, pc, frame, boot, cache, nodes>>

(* Display lists of loaded images under modes that need no second pass,    *)
(* drawn while the texture memory runs out and comes back.                 *)
FallbackScenes ==
    <<Scenes[1], Scenes[3], Scenes[4], ModeScene("lighter", TRUE)>>

NextFallback ==
    \/ \E k \in DOMAIN FallbackScenes : draw(FallbackScenes[k])
    \/ enterContainer
    \/ appendItem
    \/ exitContainer
    \/ finishDraw
    \/ exhaust

SpecFallback == Init /\ [][NextFallback]_vars

-----------------------------------------------------------------------------
(* The constructor on a hardware of n texture units, one attempt of the    *)
(* loop of _initMaterials at a time.                                       *)

InitShader ==
    \E n \in 1..MaxUnits, c \in SUBSET (1..MaxUnits) :
        /\ Start(Fresh(TRUE))
        /\ cache = NoCache
        /\ boot = [pc |-> "try", _gpuTextureCount |-> n,
                   _batchTextureCount |-> n, compiles |-> c, tried |-> <<>>]

(* what every attempt leaves: the count it was made with *)
Attempt(b) == [b EXCEPT !.tried = Append(@, b._batchTextureCount)]

(* this._batchTextureCount = (this._batchTextureCount / 2)|0 *)
Halve_up(count) == (count + 1) \div 2

Halve(count) == count \div 2

(* _fetchShaderProgram(false) returns: the loop ends, and the rest of      *)
(* _initMaterials and of the constructor runs with the count it ended on   *)
compile ==
    /\ boot.pc = "try"
    /\ boot._batchTextureCount \in boot.compiles
    /\ boot' = [Attempt(boot) EXCEPT !.pc = "done"]
    /\ stage' = [Constructed(boot._batchTextureCount, TRUE, 0).s
                    EXCEPT !._gpuTextureCount = boot._gpuTextureCount]
    /\ tex' = Constructed(boot._batchTextureCount, TRUE, 0).t
    /\ gl' = Constructed(boot._batchTextureCount, TRUE, 0).g
    /\ UNCHANGED <<img, children, stack, pc, log, frame, cache, nodes>>

(* _fetchShaderProgram(false) throws with more than one texture: the catch *)
(* halves the count for the next attempt                                   *)
degrade ==
    /\ boot.pc = "try"
    /\ boot._batchTextureCount \notin boot.compiles
    /\ boot._batchTextureCount > 1
    /\ boot' = [Attempt(boot) EXCEPT
                    !._batchTextureCount = Halve(boot._batchTextureCount)]
    /\ UNCHANGED <<stage, tex, img, gl, children, stack, pc, log, frame, cache, nodes>>

(* _fetchShaderProgram(false) throws with one texture: the catch rethrows  *)
giveUp ==
    /\ boot.pc = "try"
    /\ boot._batchTextureCount \notin boot.compiles
    /\ boot._batchTextureCount <= 1
    /\ boot' = [Attempt(boot) EXCEPT !.pc = "threw"]
    /\ UNCHANGED <<stage, tex, img, gl, children, stack, pc, log, frame, cache, nodes>>

NextShader == compile \/ degrade \/ giveUp

(* the loop has no await: an attempt that can be made is made *)
SpecShader == InitShader /\ [][NextShader]_vars /\ WF_vars(NextShader)

-----------------------------------------------------------------------------
(* A stage with an autoPurge setting over many draws.                      *)

(* set autoPurge(value), for a value that is a number *)
set_autoPurge(w, value) ==
    [w EXCEPT !.s._autoPurge = IF value # -1 /\ value < 10 THEN 10 ELSE value]

(* the autoPurge option of the constructor *)
PurgeSettings == {-1, 3, 10, 11, Infinity}

PurgeScenes == << <<>>, <<B(1, 1)>>, <<B(2, 2)>> >>

InitPurge ==
    \E value \in PurgeSettings :
        /\ Start(set_autoPurge(Constructed(1, TRUE, 0), value))
        /\ boot = Booted(1)
        /\ cache = NoCache

drawOften(list) ==
    /\ pc = "idle"
    /\ stage._drawID < MaxPurgeDraws
    /\ StartDraw(list)

NextPurge ==
    \/ \E k \in DOMAIN PurgeScenes : drawOften(PurgeScenes[k])
    \/ appendItem
    \/ finishDraw

SpecPurge == InitPurge /\ [][NextPurge]_vars

-----------------------------------------------------------------------------
(* The display list (src/display/Container.ts): nodes[n] is the parent of  *)
(* container n (undefined: none) and its children, in paint order.  An     *)
(* index is 0-based, as in the source, and may be NaN.                     *)

Nodes == 1..MaxNodes

(* the indices and the argument lists handed to the methods *)
Indices == (-1..MaxNodes) \cup {NaN}

ArgLists == {<<a>> : a \in Nodes} \cup {<<a, b>> : a, b \in Nodes}
            \cup {<<a, b, c>> : a, b, c \in Nodes}

IndexLists == {<<i>> : i \in Indices} \cup {<<i, j>> : i, j \in 0..MaxNodes}

(* Array.prototype.indexOf *)
indexOf(kids, child) ==
    IF \E k \in DOMAIN kids : kids[k] = child
    THEN (CHOOSE k \in DOMAIN kids :
            kids[k] = child /\ \A j \in DOMAIN kids : kids[j] = child => k <= j) - 1
    ELSE -1

(* index < 0 || index > last: false for NaN *)
OutOfRange(index, last) == index # NaN /\ (index < 0 \/ index > last)

(* the position splice works at: NaN counts as 0, the end is the limit *)
SplicePosition(kids, index) ==
    IF index = NaN THEN 0 ELSE IF index > Len(kids) THEN Len(kids) ELSE index

(* kids.splice(index, 1) and kids.splice(index, 0, child) *)
SpliceOut(kids, index) ==
    SubSeq(kids, 1, SplicePosition(kids, index)) \o
    SubSeq(kids, SplicePosition(kids, index) + 2, Len(kids))

SpliceIn(kids, index, child) ==
    SubSeq(kids, 1, SplicePosition(kids, index)) \o <<child>> \o
    SubSeq(kids, SplicePosition(kids, index) + 1, Len(kids))

(* Container._removeChildAt: this.children[index] is undefined for NaN,    *)
(* and then no parent is cleared                                           *)
_removeChildAt(d, c, index) ==
    IF OutOfRange(index, Len(d[c].children) - 1)
    THEN d
    ELSE [[k \in DOMAIN d |->
            IF index # NaN /\ k = d[c].children[index + 1]
            THEN [d[k] EXCEPT !.parent = undefined]
            ELSE d[k]]
          EXCEPT ![c].children = SpliceOut(d[c].children, index)]

(* parent && parent._removeChildAt(parent.children.indexOf(child), silent) *)
Detach(d, child) ==
    IF d[child].parent = undefined THEN d
    ELSE _removeChildAt(d, d[child].parent,
                        indexOf(d[d[child].parent].children, child))

(* addChild with one argument *)
AddOne(d, c, child) ==
    [Detach(d, child) EXCEPT ![child].parent = c,
                             ![c].children = Append(@, child)]

(* addChildAt with one child *)
AddOneAt(d, c, child, index) ==
    IF OutOfRange(index, Len(d[c].children)) THEN d
    ELSE [Detach(d, child) EXCEPT ![child].parent = c,
                                  ![c].children = SpliceIn(@, index, child)]

RECURSIVE AddAll(_, _, _)
AddAll(d, c, list) ==
    IF list = <<>> THEN d
    ELSE AddAll(AddOne(d, c, Head(list)), c, Tail(list))

RECURSIVE AddAllAt(_, _, _, _)
AddAllAt(d, c, list, index) ==
    IF list = <<>> THEN d
    ELSE AddAllAt(AddOneAt(d, c, Head(list), index), c, Tail(list), index + 1)

(* good = good && this._removeChildAt(a[i]): the calls up to the first     *)
(* that returns false                                                      *)
RECURSIVE RemoveAllAt(_, _, _)
RemoveAllAt(d, c, list) ==
    IF list = <<>> \/ OutOfRange(Head(list), Len(d[c].children) - 1) THEN d
    ELSE RemoveAllAt(_removeChildAt(d, c, Head(list)), c, Tail(list))

RECURSIVE RemoveAll(_, _, _)
RemoveAll(d, c, list) ==
    IF list = <<>> \/ indexOf(d[c].children, Head(list)) = -1 THEN d
    ELSE RemoveAll(_removeChildAt(d, c, indexOf(d[c].children, Head(list))),
                   c, Tail(list))

(* a.sort(function(a, b) { return b-a; }) for two indices *)
SortDescending(list) ==
    IF Len(list) = 2 /\ list[1] < list[2] THEN <<list[2], list[1]>> ELSE list

(* swapChildren: the positions the loop holds when it swaps (it tests      *)
(* index1 && index2, which position 0 fails), <<>> when it throws          *)
SwapPositions(kids, child1, child2) ==
    LET Last(child, i) ==
            IF \E j \in 1..i : kids[j] = child
            THEN CHOOSE j \in 1..i :
                    kids[j] = child /\ \A q \in 1..i : kids[q] = child => q <= j
            ELSE 0
        Both(i) == Last(child1, i) > 1 /\ Last(child2, i) > 1
    IN  IF \E i \in DOMAIN kids : Both(i)
        THEN LET i == CHOOSE i \in DOMAIN kids :
                        Both(i) /\ \A q \in DOMAIN kids : Both(q) => i <= q
             IN  <<Last(child1, i), Last(child2, i)>>
        ELSE <<>>

(* what every call on the display list leaves alone *)
StageUnchanged ==
    UNCHANGED <<stage, tex, img, gl, children, stack, pc, log, frame, boot, cache>>

(* Container.addChild(child, ...children): with more than one rest         *)
(* argument, the rest arguments are added                                  *)
addChild(c, args) ==
    /\ nodes' = IF Len(args) - 1 > 1
                THEN AddAll(nodes, c, Tail(args))
                ELSE AddOne(nodes, c, args[1])
    /\ StageUnchanged

(* Container.addChildAt(child, ..., index) *)
addChildAt(c, args, index) ==
    /\ nodes' = IF OutOfRange(index, Len(nodes[c].children)) THEN nodes
                ELSE IF Len(args) > 1
                     THEN AddAllAt(nodes, c, args, index)
                     ELSE AddOneAt(nodes, c, args[1], index)
    /\ StageUnchanged

(* Container.removeChild(child, ...) *)
removeChild(c, args) ==
    /\ nodes' = RemoveAll(nodes, c, args)
    /\ StageUnchanged

(* Container.removeChildAt(index, ...) *)
removeChildAt(c, list) ==
    /\ nodes' = IF Len(list) > 1
                THEN RemoveAllAt(nodes, c, SortDescending(list))
                ELSE _removeChildAt(nodes, c, list[1])
    /\ StageUnchanged

(* Container.removeAllChildren *)
removeAllChildren(c) ==
    /\ nodes' = [[k \in DOMAIN nodes |->
                    IF \E j \in DOMAIN nodes[c].children : nodes[c].children[j] = k
                    THEN [nodes[k] EXCEPT !.parent = undefined]
                    ELSE nodes[k]]
                 EXCEPT ![c].children = <<>>]
    /\ StageUnchanged

(* Container.swapChildrenAt *)
swapChildrenAt(c, index1, index2) ==
    /\ nodes' = IF \/ index1 \notin 0..(Len(nodes[c].children) - 1)
                   \/ index2 \notin 0..(Len(nodes[c].children) - 1)
                THEN nodes
                ELSE [nodes EXCEPT
                        ![c].children[index1 + 1] = nodes[c].children[index2 + 1],
                        ![c].children[index2 + 1] = nodes[c].children[index1 + 1]]
    /\ StageUnchanged

(* Container.swapChildren *)
swapChildren(c, child1, child2) ==
    /\ nodes' = LET at == SwapPositions(nodes[c].children, child1, child2)
                IN  IF at = <<>> THEN nodes
                    ELSE [nodes EXCEPT
                            ![c].children[at[1]] = nodes[c].children[at[2]],
                            ![c].children[at[2]] = nodes[c].children[at[1]]]
    /\ StageUnchanged

(* Container.setChildIndex *)
setChildIndex(c, child, index) ==
    /\ nodes' = IF \/ nodes[child].parent # c
                   \/ index # NaN /\ (index < 0 \/ index >= Len(nodes[c].children))
                   \/ indexOf(nodes[c].children, child) = -1
                   \/ indexOf(nodes[c].children, child) = index
                THEN nodes
                ELSE [nodes EXCEPT ![c].children =
                        SpliceIn(SpliceOut(@, indexOf(@, child)), index, child)]
    /\ StageUnchanged

NextTree ==
    \/ \E c \in Nodes, args \in ArgLists : addChild(c, args)
    \/ \E c \in Nodes, args \in ArgLists, index \in Indices : addChildAt(c, args, index)
    \/ \E c \in Nodes, args \in ArgLists : removeChild(c, args)
    \/ \E c \in Nodes, list \in IndexLists : removeChildAt(c, list)
    \/ \E c \in Nodes : removeAllChildren(c)
    \/ \E c \in Nodes, index1 \in Indices, index2 \in Indices :
            swapChildrenAt(c, index1, index2)
    \/ \E c \in Nodes, child1 \in Nodes, child2 \in Nodes : swapChildren(c, child1, child2)
    \/ \E c \in Nodes, child \in Nodes, index \in Indices : setChildIndex(c, child, index)

SpecTree == Init /\ [][NextTree]_vars

-----------------------------------------------------------------------------
(* StageGL.cacheDraw: the target drawn into the buffers of its BitmapCache *)
(* (manager), then one cover pass per filter.  frame holds the locals of   *)
(* the call (filterCount, the saved buffers) and what it reads from the    *)
(* manager without change (_cacheCanvas, one of the manager's buffers);    *)
(* cache holds the manager's buffers and how many calls were made.         *)

(* A stage and a manager that owns three render textures of it.            *)
CacheStage(n, directDraw, controlled) ==
    getRenderBufferTexture(getRenderBufferTexture(getRenderBufferTexture(
        [Constructed(n, directDraw, 0) EXCEPT !.s.isCacheControlled = controlled])))

InitCacheOf(w) ==
    /\ Start(w)
    /\ cache = [_bufferTextureOutput |-> NextTexture(w.t) - 3,
                _bufferTextureConcat |-> NextTexture(w.t) - 2,
                _bufferTextureTemp |-> NextTexture(w.t) - 1,
                updates |-> 0]

InitCache ==
    \E n \in 1..MaxSlots, directDraw \in BOOLEAN, controlled \in BOOLEAN :
        /\ InitCacheOf(CacheStage(n, directDraw, controlled))
        /\ boot = Booted(n)

(* What cacheDraw is asked to draw: a Bitmap, and containers with children *)
(* whose modes need a second pass.                                         *)
CacheTargets ==
    {B(1, 1),
     Bitmap(1, 1, "multiply", TRUE, 1),
     Container(10, NoComp, TRUE, 1,
               <<B(1, 1), Bitmap(2, 2, "multiply", TRUE, 1), B(3, 3)>>),
     Container(10, NoComp, TRUE, 1,
               <<Bitmap(1, 1, "screen", TRUE, 1), Bitmap(2, 2, "multiply", TRUE, 1)>>)}

(* cacheDraw: slots that hold a render texture go back to the filler.  The *)
(* loop runs over i < _gpuTextureCount; log.sl holds the last index it     *)
(* reads the slot table at and the length of the table.  Past the end of   *)
(* the table the read of (undefined)._frameBuffer is a TypeError.          *)
SlotsRead(w, r) ==
    [r EXCEPT !.log.sl =
        Append(@, [index |-> Min(w.s._gpuTextureCount, w.s._batchTextureCount + 1) - 1,
                   count |-> w.s._batchTextureCount])]

ResetSlots(w) ==
    LET reset == [w EXCEPT !.s._batchTextures =
                    [k \in DOMAIN @ |->
                        IF k < w.s._gpuTextureCount /\ w.t[@[k]]._frameBuffer
                        THEN BaseTexture ELSE @[k]]]
    IN  SlotsRead(w, IF w.s._gpuTextureCount > w.s._batchTextureCount
                     THEN Throw(reset)
                     ELSE reset)

(* cacheDraw: the buffers of the manager become the buffers of the batch   *)
UseManager(w, manager, filterCount) ==
    [w EXCEPT
        !.s._batchTextureOutput =
            IF filterCount % 2 = 1 THEN manager._bufferTextureConcat
            ELSE manager._bufferTextureOutput,
        !.s._batchTextureConcat =
            IF filterCount % 2 = 1 THEN manager._bufferTextureOutput
            ELSE manager._bufferTextureConcat,
        !.s._batchTextureTemp = manager._bufferTextureTemp]

(* cacheDraw from the slot reset to _updateRenderMode("source-over"): the   *)
(* surface takes the size of the cache                                     *)
BeginCache(w, manager, filterCount) ==
    IF ResetSlots(w).threw
    THEN ResetSlots(w)
    ELSE Call_updateRenderMode(
            UseManager(_updateDrawingSurface(ResetSlots(w), DrawWidth, DrawHeight),
                       manager, filterCount),
            "source-over")

(* the locals of a call of cacheDraw made in state s: the saved targets    *)
(* and surface, and the frame of the draw it interrupts, if any (outer)    *)
CacheFrame(s, manager, filterCount, aligned, base, outer) ==
    [NoFrame EXCEPT
        !.op = "cacheDraw", !.status = "running",
        !.storeBatchOutput = s._batchTextureOutput,
        !.storeBatchConcat = s._batchTextureConcat,
        !.storeBatchTemp = s._batchTextureTemp,
        !.backupWidth = s._viewportWidth,
        !.backupHeight = s._viewportHeight,
        !.startBatchID = s._batchID,
        !.filterCount = filterCount,
        !._cacheCanvas = IF aligned THEN manager._bufferTextureOutput
                         ELSE manager._bufferTextureConcat,
        !.managerOutput = manager._bufferTextureOutput,
        !.base = base,
        !.outer = outer]

(* cacheDraw up to the loop of _appendToBatch over [target], or out of it  *)
(* by the exception of the slot reset                                      *)
cacheDraw(target, filterCount, aligned) ==
    /\ pc = "idle"
    /\ cache.updates < MaxCacheDraws
    /\ children' = <<target>>
    /\ IF BeginCache(World, cache, filterCount).threw
       THEN /\ Commit(BeginCache(World, cache, filterCount))
            /\ stack' = <<>>
            /\ frame' = [CacheFrame(stage, cache, filterCount, aligned, 1, <<>>)
                            EXCEPT !.status = "threw"]
            /\ pc' = "idle"
       ELSE /\ EnterStage(BeginCache(World, cache, filterCount), <<target>>)
            /\ frame' = CacheFrame(stage, cache, filterCount, aligned, 1, <<>>)
            /\ pc' = "loop"

(* BitmapCache.define(target, ..., {useGL: stage}): the cache has the      *)
(* stage draw the target into it, with one pass per filter of the target:  *)
(* stage.cacheDraw(target, manager), here up to the loop of _appendToBatch *)
(* over [target].                                                          *)
define(w, target, manager) == BeginCache(w, manager, target.filters)

(* _appendToBatch at a child with filters and no cache, in a draw of a     *)
(* buffered stage: the flush ("cachelessFilterInterupt"), item.alpha = 1,  *)
(* and item.bitmapCache.define(..., {useGL: this}).  The draw waits in its *)
(* turn (the stack below the new activation).                              *)
filterInterrupt ==
    /\ InLoop
    /\ Drawn(Item, Top.concatAlpha)
    /\ Interrupts(Item)
    /\ cache.updates < MaxCacheDraws
    /\ Commit(define(Call_renderBatch(World), Item, cache))
    /\ stack' = Append(stack,
                       Activation(StageNode(<<[Item EXCEPT !.alpha = 1]>>), identity,
                                  stage'._renderMode, 1))
    /\ frame' = CacheFrame(stage, cache, Item.filters, TRUE, Len(stack) + 1,
                           <<frame>>)
    /\ UNCHANGED <<children, pc>>

(* the passes still to make, without the pass that aligns the output *)
FiltersLeft_unaligned(w, f) ==
    IF w.s.isCacheControlled THEN f.filterCount + 1 ELSE f.filterCount

(* "re-align buffers with fake filter passes": the passes still to make    *)
FiltersLeft(w, f) ==
    IF w.s.isCacheControlled
    THEN f.filterCount + 1
    ELSE IF f._cacheCanvas # (IF f.filterCount % 2 = 1
                              THEN w.s._batchTextureConcat
                              ELSE w.s._batchTextureOutput)
         THEN f.filterCount + 1
         ELSE f.filterCount

(* manager._getGLFilter(index): the filter of that index, if there is one  *)
_getGLFilter(f, index) ==
    IF index >= 0 /\ index < f.filterCount THEN Filter ELSE undefined

(* a pass that keeps the output buffer and takes it as the concat buffer   *)
SwapBuffers_none(w, filtersLeft) ==
    [w EXCEPT !.s._batchTextureConcat = w.s._batchTextureOutput]

(* swap = concat; concat = output; output = (last pass of a cache          *)
(* controlled stage) ? this : swap                                         *)
SwapBuffers(w, filtersLeft) ==
    [w EXCEPT !.s._batchTextureConcat = w.s._batchTextureOutput,
              !.s._batchTextureOutput =
                    IF w.s.isCacheControlled /\ filtersLeft = 0 THEN THIS
                    ELSE w.s._batchTextureConcat]

RECURSIVE FilterPasses(_, _, _, _)
(* while (filtersLeft) { ... this._drawCover(...) } *)
FilterPasses(w, f, filterCount, filtersLeft) ==
    IF filtersLeft = 0 THEN w
    ELSE FilterPasses(CoverOutput(SwapBuffers(w, filtersLeft - 1),
                                  _getGLFilter(f, filterCount - filtersLeft)),
                      f, filterCount, filtersLeft - 1)

(* the passes of cacheDraw after _drawContent *)
FilterLoop(w, f) ==
    FilterPasses(w, f,
                 IF w.s.isCacheControlled THEN f.filterCount + 1 ELSE f.filterCount,
                 FiltersLeft(w, f))

(* a return that puts back the output buffer only *)
RestoreTargets_outputOnly(w, store) ==
    [w EXCEPT !.s._batchTextureOutput = store.storeBatchOutput]

(* this._batchTextureOutput = storeBatchOutput; ... Concat; ... Temp *)
RestoreTargets(w, store) ==
    [w EXCEPT !.s._batchTextureOutput = store.storeBatchOutput,
              !.s._batchTextureConcat = store.storeBatchConcat,
              !.s._batchTextureTemp = store.storeBatchTemp]

(* the end of cacheDraw: the stage's own targets come back, then the       *)
(* surface gets its size back                                              *)
LeaveCache(w, store) ==
    Returned(_updateDrawingSurface(RestoreTargets(w, store),
                                   store.backupWidth, store.backupHeight),
             store)

(* the buffers go back to the manager, the stage's own buffers come back   *)
EndCache(w, store) ==
    /\ cache' = [cache EXCEPT !._bufferTextureOutput = w.s._batchTextureOutput,
                              !._bufferTextureConcat = w.s._batchTextureConcat,
                              !._bufferTextureTemp = w.s._batchTextureTemp,
                              !.updates = @ + 1]
    /\ stage' = LeaveCache(w, store).s
    /\ tex' = w.t
    /\ img' = w.i
    /\ gl' = w.g
    /\ log' = LeaveCache(w, store).log

(* The end of the outermost _appendToBatch, the rest of _drawContent and   *)
(* the rest of cacheDraw.                                                  *)
finishCache ==
    /\ AtEnd
    /\ Len(stack) = frame.base
    /\ frame.op = "cacheDraw"
    /\ EndCache(FilterLoop(Call_renderBatch(
                    restoreRenderMode(World, Top.previousRenderMode)), frame),
                frame)
    /\ stack' = Pop(stack)
    /\ IF frame.outer = <<>>
       THEN /\ pc' = "idle"
            /\ frame' = [frame EXCEPT !.status = "ok", !.item = undefined,
                                       !.image = 0]
       ELSE /\ pc' = "cached"
            /\ frame' = [frame.outer[1] EXCEPT !.useCache = frame._cacheCanvas]
    /\ UNCHANGED <<children, boot, nodes>>

(* The rest of the turn of _appendToBatch that was interrupted: useCache = *)
(* item.bitmapCache._cacheCanvas is the image of the card, a render        *)
(* texture that has a store id of its own; the card has the size of the    *)
(* cache (src._drawWidth / src.scale, with scale 1 and no offset).         *)
fetchCached(w, tid) ==
    IF w.t[tid]._storeID = undefined
    THEN Throw(w)
    ELSE [FetchKnown(w, Lookup(w.s, w.t[tid]._storeID))
            EXCEPT !.t[tid]._drawID = w.s._drawID]

appendCachedLeaf(w, item, tid, cMtx, concatAlpha) ==
    writeItem(fetchCached(checkOverflow(itemRenderMode(w, item)), tid),
              [item EXCEPT !.sourceRect = <<[x |-> 0, y |-> 0, width |-> DrawWidth,
                                             height |-> DrawHeight]>>],
              Concatenated(cMtx, item.transform), concatAlpha, w.s._renderMode)

appendCached ==
    /\ pc = "cached"
    /\ Turned(appendCachedLeaf(World, Item, frame.useCache, Top.cMtx,
                               Top.concatAlpha))
    /\ UNCHANGED children

NextCache ==
    \/ \E target \in CacheTargets, filterCount \in 0..MaxFilters, aligned \in BOOLEAN :
            cacheDraw(target, filterCount, aligned)
    \/ enterContainer
    \/ appendItem
    \/ exitContainer
    \/ finishCache

SpecCache == InitCache /\ [][NextCache]_vars

(* Draws of display lists with filtered children on stages whose manager   *)
(* serves as the cache of those children, and calls of cacheDraw between   *)
(* the draws.  The stage is one the application made ({useGL: stage}), not *)
(* the private stage of a cache.                                           *)
InitNested ==
    \E n \in 1..MaxSlots, directDraw \in BOOLEAN :
        /\ InitCacheOf(CacheStage(n, directDraw, FALSE))
        /\ boot = Booted(n)

NestedScenes ==
    <<  <<B(1, 1), FilteredBitmap(2, 2, 1), B(3, 3)>>,
        <<Container(10, NoComp, TRUE, 1, <<FilteredBitmap(2, 2, 2), B(1, 1)>>)>>,
        <<FilteredBitmap(3, 3, 1), FilteredBitmap(2, 2, 0)>>  >>

NestedTargets == {FilteredBitmap(2, 2, 1)}

NextNested ==
    \/ \E k \in DOMAIN NestedScenes : draw(NestedScenes[k])
    \/ \E target \in NestedTargets, aligned \in BOOLEAN :
            cacheDraw(target, target.filters, aligned)
    \/ filterInterrupt
    \/ appendCached
    \/ enterContainer
    \/ appendItem
    \/ exitContainer
    \/ finishDraw
    \/ finishCache

SpecNested == InitNested /\ [][NextNested]_vars

-----------------------------------------------------------------------------
(* Properties.  A step's log holds every call of _renderBatch,             *)
(* _insertTextureInBatch, _updateRenderMode and releaseTexture the step    *)
(* made and every card it wrote; gl.calls holds the GPU submissions of the *)
(* current draw().                                                         *)

DrawOver == pc = "idle" /\ frame.op = "draw"

(* C1: slot exclusivity.  At every non-empty flush each quad of the        *)
(* flushed batch carries a slot index whose entry in the slot table is the *)
(* texture the quad was appended with, and two quads of the batch with     *)
(* different textures carry different slot indices.                        *)
SlotExclusivity ==
    \A k \in DOMAIN log.rb :
        LET e == log.rb[k].entry
        IN  e.count > 0 =>
                /\ \A q \in DOMAIN e.batch :
                        e.slots[e.batch[q].texIndex] = e.batch[q].texture
                /\ \A p, q \in DOMAIN e.batch :
                        e.batch[p].texture # e.batch[q].texture
                            => e.batch[p].texIndex # e.batch[q].texIndex

(* C2: eviction safety.  Whenever _insertTextureInBatch replaces the       *)
(* occupant of a slot by another texture, the batch stamp of the replaced  *)
(* occupant differs from the batch counter at the replacement.             *)
EvictionSafety ==
    \A k \in DOMAIN log.ins :
        LET e == log.ins[k]
        IN  \A slot \in DOMAIN e.before :
                (e.after[slot] = e.texture /\ e.before[slot] # e.texture)
                    => e.stamps[e.before[slot]] # e.batchID

(* C3: capacity invariant.  When the six vertices of a card are written    *)
(* the cursor is at most the capacity minus six, and the cursor never      *)
(* exceeds the capacity.                                                   *)
CapacityInvariant ==
    /\ stage._batchVertexCount <= stage._maxBatchVertexCount
    /\ \A k \in DOMAIN log.wr :
            log.wr[k].cursor + INDICES_PER_CARD <= log.wr[k].capacity

(* a card written at cursor 0 right after the flush of a full batch *)
CapacityWitness ==
    \E k \in DOMAIN log.wr, r \in DOMAIN log.rb :
        /\ log.wr[k].cursor = 0
        /\ log.wr[k].flushes >= r
        /\ log.rb[r].entry.count = stage._maxBatchVertexCount

(* C4: flush completeness.  After every call of _renderBatch the cursor is *)
(* 0; a call that found vertices advanced the batch counter by exactly one *)
(* and issued one GPU draw; a call that found none changed nothing.        *)
FlushCompleteness ==
    \A k \in DOMAIN log.rb :
        LET e == log.rb[k].entry
            x == log.rb[k].exit
        IN  /\ x.count = 0
            /\ e.count > 0 => /\ x.batchID = e.batchID + 1
                              /\ x.calls = e.calls + 1
            /\ e.count <= 0 => x = e

(* a step that called _renderBatch on a pending batch and on an empty one *)
FlushWitness ==
    \E j, k \in DOMAIN log.rb :
        /\ log.rb[j].entry.count > 0
        /\ log.rb[k].entry.count = 0

(* C5: blend boundary.  A call of _updateRenderMode that changes the mode  *)
(* submits the pending cards under the mode and the blend function it      *)
(* found and leaves none pending; every submitted batch holds only cards   *)
(* appended under the mode it is submitted under.                          *)
BlendBoundary ==
    /\ \A k \in DOMAIN log.um :
            LET u == log.um[k]
            IN  u.exit.mode # u.entry.mode =>
                    /\ u.exit.count = 0
                    /\ u.entry.count > 0 => Len(u.calls) = 1
                    /\ \A c \in DOMAIN u.calls :
                            /\ u.calls[c].mode = u.entry.mode
                            /\ u.calls[c].blend = u.entry.blend
                            /\ u.calls[c].quads = u.entry.batch
    /\ \A c \in DOMAIN gl.calls :
            \A q \in DOMAIN gl.calls[c].quads :
                gl.calls[c].quads[q].mode = gl.calls[c].mode

(* a mode change with cards pending *)
BlendWitness ==
    \E k \in DOMAIN log.um :
        /\ log.um[k].exit.mode # log.um[k].entry.mode
        /\ log.um[k].entry.count > 0
        /\ log.um[k].exit.blend # log.um[k].entry.blend

(* The leaves of a display list that are drawn and have a valid image, in  *)
(* depth-first child-list order.                                           *)
RECURSIVE Leaves(_, _)
Leaves(list, concatAlpha) ==
    IF list = <<>> THEN <<>>
    ELSE LET item == Head(list)
             own == IF ~Drawn(item, concatAlpha) THEN <<>>
                    ELSE IF item.isContainer
                         THEN Leaves(item.children, item.alpha * concatAlpha)
                         ELSE IF item.style = 2 /\ SrcPath(item.image) # ""
                              THEN <<item.id>>
                              ELSE <<>>
         IN  own \o Leaves(Tail(list), concatAlpha)

(* The nodes of the cards submitted by calls, in submission order.         *)
RECURSIVE Submitted(_)
Submitted(calls) ==
    IF calls = <<>> THEN <<>>
    ELSE [q \in DOMAIN Head(calls).quads |-> Head(calls).quads[q].id]
            \o Submitted(Tail(calls))

(* C6: resource exhaustion only changes the number of submissions.  When   *)
(* draw() is over, the cards submitted are those of the drawn leaves with  *)
(* a valid image, once each and in paint order, and no vertex is pending.  *)
ExhaustionTransparent ==
    DrawOver =>
        /\ Submitted(gl.calls) = Leaves(children, 1)
        /\ stage._batchVertexCount = 0

(* The blend mode of the concatenated display state of node id: the first  *)
(* compositeOperation set from the node up to the root ("none": the node   *)
(* is not in the list).                                                    *)
RECURSIVE ModeOf(_, _, _)
ModeOf(list, id, inherited) ==
    IF list = <<>> THEN "none"
    ELSE LET item == Head(list)
             own == IF item.compositeOperation # NoComp
                    THEN item.compositeOperation
                    ELSE inherited
             here == IF item.id = id THEN own
                     ELSE IF item.isContainer
                          THEN ModeOf(item.children, id, own)
                          ELSE "none"
         IN  IF here # "none" THEN here ELSE ModeOf(Tail(list), id, inherited)

LegalMode(m) ==
    /\ m \in DOMAIN BLEND_SOURCES
    /\ ~(Immediate(m) /\ stage._directDraw)

(* C7: every card is submitted under the blend mode of its node's          *)
(* concatenated display state, for the known and legal modes.              *)
BlendOfConcatenatedState ==
    \A c \in DOMAIN gl.calls :
        \A q \in DOMAIN gl.calls[c].quads :
            LET m == ModeOf(children, gl.calls[c].quads[q].id, "source-over")
            IN  LegalMode(m) => gl.calls[c].mode = m

(* the textures of the cards submitted in the current draw() *)
UsedTextures ==
    UNION {{gl.calls[c].quads[q].texture : q \in DOMAIN gl.calls[c].quads} :
            c \in DOMAIN gl.calls}

BatchCalls == {c \in DOMAIN gl.calls : gl.calls[c].kind = "batch"}

(* C8: a draw() that renders more distinct textures than there are slots   *)
(* advances the batch counter by more than one: a forced flush comes       *)
(* before the flush at the end of the frame.                               *)
OverflowForcesFlush ==
    (DrawOver /\ frame.status = "ok"
        /\ Cardinality(UsedTextures) > stage._batchTextureCount)
    => /\ stage._batchID - frame.startBatchID > 1
       /\ Cardinality(BatchCalls) > 1

(* C9: safe release is reference counted.  A safe release of an image that *)
(* shares its texture leaves the texture in the dictionary and not         *)
(* deleted; a safe release deletes the texture exactly when the image was  *)
(* the only one left on it.                                                *)
SafeReleaseCounted ==
    \A k \in DOMAIN log.rel :
        LET e == log.rel[k]
        IN  (/\ e.safe
             /\ e.texture # undefined
             /\ e.sharers # NoData
             /\ \E n \in DOMAIN e.sharers : e.sharers[n] = e.image)
            => /\ Len(e.sharers) >= 2 => (~e.deleted /\ e.listed)
               /\ e.deleted <=> Len(e.sharers) = 1

(* a safe release of one of two images that share a texture *)
SafeReleaseWitness ==
    \E k \in DOMAIN log.rel :
        /\ log.rel[k].safe
        /\ log.rel[k].texture # undefined
        /\ log.rel[k].sharers = <<1, 4>>
        /\ ~log.rel[k].deleted
        /\ log.rel[k].listed

(* C10: a node with an invalid image source is skipped: the turn of the    *)
(* loop that handles it throws nothing and adds no card.                   *)
InvalidSourceSkipped ==
    (frame.op = "draw" /\ frame.image \in Images /\ SrcPath(frame.image) = "")
    => /\ frame.status # "threw"
       /\ \A q \in DOMAIN stage.batch : stage.batch[q].id # frame.item

(* C11: a request for a name that is not a known mode throws nothing and   *)
(* leaves the default mode "source-over" active, whatever mode was active  *)
(* before.                                                                 *)
UnknownModeDefaults ==
    \A k \in DOMAIN log.um :
        (log.um[k].request # NoComp /\ log.um[k].request \notin DOMAIN BLEND_SOURCES)
        => /\ ~log.um[k].threw
           /\ log.um[k].exit.mode = "source-over"

IllegalModeFallsBackToDefault ==
    \A k \in DOMAIN log.um :
        (stage._directDraw /\ Immediate(log.um[k].request))
        => /\ ~log.um[k].threw
           /\ log.um[k].exit.mode = "source-over"

(* C14: when the GPU texture for a new image cannot be created, the image  *)
(* is mapped to the shared base texture, its card is appended with a slot  *)
(* index below the slot count, the index of the slot that holds the base   *)
(* texture, and the draw goes on without an exception.                     *)
FallbackOnFailure ==
    /\ frame.status # "threw"
    /\ \A k \in DOMAIN log.ld :
          log.ld[k].failed
          => /\ log.ld[k].texture = BaseTexture
             /\ Lookup(stage, img[frame.image]._storeID) = BaseTexture
             /\ tex[BaseTexture]._storeID = BaseStoreID
             /\ Len(log.wr) = 1
             /\ log.wr[1].texture = BaseTexture
             /\ log.wr[1].texIndex \in 0..(stage._batchTextureCount - 1)
             /\ log.wr[1].slots[log.wr[1].texIndex] = BaseTexture

(* a failed creation for an image drawn after another card is pending *)
FallbackWitness ==
    \E k \in DOMAIN log.ld :
        /\ log.ld[k].failed
        /\ Len(log.wr) = 1
        /\ log.wr[1].cursor > 0
        /\ \E q \in DOMAIN stage.batch : stage.batch[q].texture # BaseTexture

(* C15: on a hardware of n >= 1 texture units the loop of _initMaterials   *)
(* attempts the counts n, floor(n/2), floor(n/4), ... in this order, each  *)
(* attempt before the last having failed; it ends, either at the first     *)
(* count that compiles, which is at least 1 and becomes the slot count, or *)
(* with a throw after the attempt with one texture failed.                 *)
ShaderDegradationTerminates ==
    /\ [](/\ \A k \in DOMAIN boot.tried :
                /\ boot.tried[k] = boot._gpuTextureCount \div (2 ^ (k - 1))
                /\ k < Len(boot.tried) => boot.tried[k] \notin boot.compiles
          /\ boot.pc = "done"
             => /\ boot.tried[Len(boot.tried)] \in boot.compiles
                /\ boot._batchTextureCount = boot.tried[Len(boot.tried)]
                /\ boot._batchTextureCount >= 1
                /\ stage._batchTextureCount = boot._batchTextureCount
                /\ DOMAIN stage._batchTextures = 0..(boot._batchTextureCount - 1)
          /\ boot.pc = "threw"
             => /\ boot.tried[Len(boot.tried)] = 1
                /\ 1 \notin boot.compiles)
    /\ <>(boot.pc # "try")

(* five units, of which only one texture compiles: 5, 2, 1 *)
ShaderDegradationWitness ==
    /\ boot.pc = "done"
    /\ boot.tried = <<5, 2, 1>>
    /\ stage._batchTextureCount = 1

(* C16: no cover pass of the filter loop of cacheDraw or of                *)
(* _immediateBatchRender renders into a texture it samples: the texture of *)
(* the frame buffer it draws into is neither the destination texture nor   *)
(* the source texture of the pass, for 0..MaxFilters filters and any       *)
(* number of elements drawn in an immediate mode, on a manager whose three *)
(* buffers are distinct textures.                                          *)
NoSelfReferentialPass ==
    \A k \in DOMAIN log.cv :
        log.cv[k].out # null
        => /\ log.cv[k].out # log.cv[k].dst
           /\ log.cv[k].out # log.cv[k].src

(* the passes of a cache with two filters whose content had an element in  *)
(* an immediate mode                                                       *)
NoSelfReferentialPassWitness ==
    /\ frame.op = "cacheDraw"
    /\ frame.filterCount = 2
    /\ Len(log.cv) >= 2
    /\ \A k \in DOMAIN log.cv : log.cv[k].out # null
    /\ \E c \in DOMAIN gl.calls :
          gl.calls[c].kind = "cover" /\ gl.calls[c].mode = "multiply"

(* C17: a purgeTextures(n) that directly follows a purgeTextures(n), with  *)
(* no draw and no other call in between, removes no image reference and    *)
(* deletes no texture: the stage, the textures and the images are left as  *)
(* found.                                                                  *)
PurgeIdempotent ==
    \A k \in DOMAIN log.pg :
        log.pg[k].again => log.pg[k].exit = log.pg[k].entry

(* a repeated purge on a stage where a texture was deleted and another is  *)
(* still tracked with a reference                                          *)
PurgeIdempotentWitness ==
    \E k \in DOMAIN log.pg :
        /\ log.pg[k].again
        /\ \E tid \in DOMAIN log.pg[k].entry.t : log.pg[k].entry.t[tid].deleted
        /\ \E tid \in DOMAIN log.pg[k].entry.t :
              /\ log.pg[k].entry.t[tid]._imageData # NoData
              /\ Len(log.pg[k].entry.t[tid]._imageData) > 0

(* C18: after purgeTextures(n) no texture of the dictionary keeps a        *)
(* reference to an image last drawn n or more draws ago; every texture     *)
(* that was tracked and is left without a reference is deleted and is in   *)
(* no dictionary entry and no slot; every texture with a reference to an   *)
(* image drawn more recently is still in the dictionary, not deleted, with *)
(* that reference.                                                         *)
PurgePostcondition ==
    \A k \in DOMAIN log.pg :
        \A d \in DOMAIN log.pg[k].entry.s._textureDictionary :
            LET e == log.pg[k].entry
                x == log.pg[k].exit
                tid == e.s._textureDictionary[d]
            IN  (tid # undefined /\ e.t[tid]._imageData # NoData)
                => /\ x.t[tid]._imageData # NoData
                      => \A j \in DOMAIN x.t[tid]._imageData :
                            ~Old(x, x.t[tid]._imageData[j], log.pg[k].count)
                   /\ (x.t[tid]._imageData = NoData \/ Len(x.t[tid]._imageData) = 0)
                      => /\ x.t[tid].deleted
                         /\ \A q \in DOMAIN x.s._textureDictionary :
                                x.s._textureDictionary[q] # tid
                         /\ \A q \in DOMAIN x.s._batchTextures :
                                x.s._batchTextures[q] # tid
                   /\ \A j \in DOMAIN e.t[tid]._imageData :
                        ~Old(e, e.t[tid]._imageData[j], log.pg[k].count)
                        => /\ ~x.t[tid].deleted
                           /\ x.s._textureDictionary[d] = tid
                           /\ \E o \in DOMAIN x.t[tid]._imageData :
                                x.t[tid]._imageData[o] = e.t[tid]._imageData[j]

(* a purge of a count of at least one draw that leaves one texture without *)
(* references and another with a reference                                 *)
PurgePostconditionWitness ==
    \E k \in DOMAIN log.pg :
        /\ log.pg[k].count >= 1
        /\ \E tid \in DOMAIN log.pg[k].entry.t :
              /\ log.pg[k].entry.t[tid]._imageData # NoData
              /\ ~log.pg[k].entry.t[tid].deleted
              /\ log.pg[k].exit.t[tid].deleted
        /\ \E tid \in DOMAIN log.pg[k].entry.t :
              /\ log.pg[k].exit.t[tid]._imageData # NoData
              /\ Len(log.pg[k].exit.t[tid]._imageData) > 0
              /\ ~log.pg[k].exit.t[tid].deleted

(* C19: with autoPurge = p other than -1 a draw ends with purgeTextures(p) *)
(* exactly when its draw counter is a multiple of floor(p/2), so that no   *)
(* image stays tracked more than p + floor(p/2) draws after the last draw  *)
(* that used it; with autoPurge = -1 no draw purges.                       *)
AutoPurgeSchedule ==
    (pc = "idle" /\ frame.op = "draw" /\ frame.status = "ok")
    => /\ Len(log.pg) = 1
          <=> /\ stage._autoPurge # -1
              /\ stage._autoPurge # Infinity
              /\ stage._drawID % (stage._autoPurge \div 2) = 0
       /\ Len(log.pg) = 1 => log.pg[1].count = stage._autoPurge
       /\ (stage._autoPurge # -1 /\ stage._autoPurge # Infinity)
          => \A im \in Images :
                (img[im]._storeID # undefined /\ img[im]._drawID # undefined)
                => stage._drawID - img[im]._drawID
                        <= stage._autoPurge + stage._autoPurge \div 2

(* C20: after any sequence of addChild, addChildAt, removeChild,           *)
(* removeChildAt, removeAllChildren, setChildIndex, swapChildrenAt and     *)
(* swapChildren calls, a node whose parent is P is exactly once in the     *)
(* children of P and not in the children of any other container, and a     *)
(* node without a parent is in no container's children.                    *)
DisplayListInvariant ==
    \A n \in Nodes, c \in Nodes :
        Cardinality({k \in DOMAIN nodes[c].children : nodes[c].children[k] = n})
            = IF nodes[n].parent = c THEN 1 ELSE 0

(* The transforms of node id, of its parent, of the parent's parent, ...   *)
(* up to the children of the stage (<<>>: the node is not in the list).    *)
RECURSIVE ChainOf(_, _)
ChainOf(list, id) ==
    IF list = <<>> THEN <<>>
    ELSE IF Head(list).id = id THEN <<Head(list).transform>>
         ELSE IF Head(list).isContainer /\ ChainOf(Head(list).children, id) # <<>>
              THEN Append(ChainOf(Head(list).children, id), Head(list).transform)
              ELSE ChainOf(Tail(list), id)

(* getConcatenatedMatrix() of node id of the display list being drawn *)
ConcatenatedMatrixOf(id) ==
    getConcatenatedMatrix(Append(ChainOf(children, id), StageNode(children).transform))

FlushFromWrittenLayout ==
    \A c \in DOMAIN gl.calls :
        gl.calls[c].kind = "batch"
        => \A q \in DOMAIN gl.calls[c].quads :
                gl.calls[c].quads[q].config = gl.calls[c].config

(* C23: the arrays of the default layout hold the capacity.  Every write   *)
(* of a card into the default layout at a cursor below                     *)
(* _maxBatchVertexCount is at an index inside its array, the position and  *)
(* uv arrays being 2 x capacity floats long and the texture-index and      *)
(* alpha arrays capacity floats.                                           *)
VertexArraysHoldCapacity ==
    \A k \in DOMAIN log.wr :
        (log.wr[k].config = "default" /\ log.wr[k].cursor < log.wr[k].capacity)
        => \A name \in AttributeNames :
              /\ log.wr[k].lengths[name] = FloatsOf(name) * log.wr[k].capacity
              /\ \A index \in log.wr[k].written[name] :
                    index >= 0 /\ index < log.wr[k].lengths[name]

(* an insert that has to find a slot: the texture is not the occupant of   *)
(* the slot it recorded                                                    *)
Unbound(e) ==
    e.index = undefined \/ e.before[e.index] # e.texture

(* the slot the scan starts at: (last-inserted slot + 1) mod slot count *)
StartOf(e) == (e.lastInsert + 1) % Cardinality(DOMAIN e.before)

EligibleSlots(e) ==
    {slot \in DOMAIN e.before : e.stamps[e.before[slot]] # e.entryBatchID}

(* C25: forward progress on slot exhaustion.  When a texture is inserted   *)
(* and no slot is eligible, exactly one flush is forced, it advances the   *)
(* batch counter so that no occupant is stamped with the current batch any *)
(* more, and the texture is bound (to the slot the scan started at)        *)
(* without a second flush.                                                 *)
ForwardProgress ==
    \A k \in DOMAIN log.ins :
        LET e == log.ins[k]
        IN  (Unbound(e) /\ EligibleSlots(e) = {})
            => /\ e.flushes = 1
               /\ e.batchID = e.entryBatchID + 1
               /\ \A slot \in DOMAIN e.before :
                        e.stamps[e.before[slot]] # e.batchID
               /\ e.after[e.slot] = e.texture
               /\ e.slot = StartOf(e)

(* the place of a slot in the cyclic order that begins at StartOf(e) *)
PlaceOf(e, slot) == (slot - StartOf(e)) % Cardinality(DOMAIN e.before)

(* C26: round-robin placement.  When a texture that is in no slot is       *)
(* inserted and at least one slot is eligible, no flush is forced, the     *)
(* texture replaces the occupant of the first eligible slot in cyclic      *)
(* order from (last-inserted slot + 1) mod slot count and of no other      *)
(* slot, and that slot becomes the last-inserted slot.                     *)
RoundRobinPlacement ==
    \A k \in DOMAIN log.ins :
        LET e == log.ins[k]
        IN  (/\ \A slot \in DOMAIN e.before : e.before[slot] # e.texture
             /\ EligibleSlots(e) # {})
            => \E first \in EligibleSlots(e) :
                    /\ \A slot \in EligibleSlots(e) :
                            PlaceOf(e, first) <= PlaceOf(e, slot)
                    /\ e.after = [e.before EXCEPT ![first] = e.texture]
                    /\ e.slot = first
                    /\ e.last = first
                    /\ e.flushes = 0

(* an insert whose scan passed over the slot it started at, the occupant   *)
(* being stamped with the current batch                                    *)
RoundRobinWitness ==
    \E k \in DOMAIN log.ins :
        /\ \A slot \in DOMAIN log.ins[k].before :
                log.ins[k].before[slot] # log.ins[k].texture
        /\ EligibleSlots(log.ins[k]) # {}
        /\ PlaceOf(log.ins[k], log.ins[k].slot) >= 1
        /\ log.ins[k].last = log.ins[k].slot

ImmediatePerElement ==
    /\ \A k \in DOMAIN log.wr :
            log.wr[k].immediate
            => /\ log.wr[k].cursor = 0
               /\ Len(log.rb) > log.wr[k].flushes
               /\ LET flush == log.rb[log.wr[k].flushes + 1]
                  IN  /\ flush.entry.count = INDICES_PER_CARD
                      /\ Len(flush.entry.batch) = 1
                      /\ flush.entry.batch[1].id = log.wr[k].id
                      /\ flush.exit.count = 0
                      /\ flush.exit.batchID = flush.entry.batchID + 1
               /\ Len(log.cv) = 1
               /\ stage._batchVertexCount = 0
    /\ \A r \in DOMAIN log.rb :
            log.rb[r].entry.immediate => Len(log.rb[r].entry.batch) <= 1

CacheDrawOver == pc = "idle" /\ frame.op = "cacheDraw" /\ frame.status = "ok"

(* C29: when cacheDraw returns on a stage that is not cache controlled,    *)
(* and _cacheCanvas was the output buffer of the manager on entry, the     *)
(* output buffer of the manager is that texture again, for every filter    *)
(* count and every number of buffer swaps made for immediate modes.        *)
OutputBufferAligned ==
    (/\ CacheDrawOver
     /\ ~stage.isCacheControlled
     /\ frame._cacheCanvas = frame.managerOutput)
    => cache._bufferTextureOutput = frame._cacheCanvas

(* a cacheDraw with one filter of a Bitmap in an immediate mode on a        *)
(* buffered stage: the swap of the immediate card, then the pass that      *)
(* aligns the output and the pass of the filter                            *)
OutputBufferAlignedWitness ==
    /\ CacheDrawOver
    /\ ~stage.isCacheControlled
    /\ ~stage._directDraw
    /\ frame._cacheCanvas = frame.managerOutput
    /\ frame.filterCount = 1
    /\ children = <<Bitmap(1, 1, "multiply", TRUE, 1)>>
    /\ cache._bufferTextureOutput = frame._cacheCanvas
    /\ cache.updates = 2

CapacityIsClampTimesSix ==
    boot.pc = "constructed" =>
        LET b == boot.batchSize
            numeric == b.type = "number" \/ (b.type = "string" /\ b.text = "numeric")
            cap == stage._maxBatchVertexCount
        IN  /\ (~numeric \/ b.halves = 0)
                    => cap = DEFAULT_MAX_BATCH_SIZE * INDICES_PER_CARD
            /\ (numeric /\ b.halves # 0 /\ b.halves < 2 * DEFAULT_MIN_BATCH_SIZE)
                    => cap = DEFAULT_MIN_BATCH_SIZE * INDICES_PER_CARD
            /\ (numeric /\ b.halves > 2 * DEFAULT_MAX_BATCH_SIZE)
                    => cap = DEFAULT_MAX_BATCH_SIZE * INDICES_PER_CARD
            /\ (numeric /\ b.halves >= 2 * DEFAULT_MIN_BATCH_SIZE
                        /\ b.halves <= 2 * DEFAULT_MAX_BATCH_SIZE)
                    => 2 * cap = b.halves * INDICES_PER_CARD
            /\ cap >= DEFAULT_MIN_BATCH_SIZE * INDICES_PER_CARD
            /\ cap <= DEFAULT_MAX_BATCH_SIZE * INDICES_PER_CARD

CapacityMultipleOfSix ==
    /\ CapacityIsClampTimesSix
    /\ boot.pc = "constructed" => stage._maxBatchVertexCount % INDICES_PER_CARD = 0

(* C24, amended: the capacity is clamp(batchSize, 170, 10920) x 6 with a   *)
(* missing, zero or non-numeric batchSize counting as 10920, it lies       *)
(* between 1020 and 65520, and it is a multiple of 6 whenever the clamped  *)
(* batchSize is a whole number.                                            *)
CapacityOfBatchSize ==
    /\ CapacityIsClampTimesSix
    /\ (/\ boot.pc = "constructed"
        /\ \/ Number(boot.batchSize).nan
           \/ Number(boot.batchSize).halves % 2 = 0
           \/ Number(boot.batchSize).halves < 2 * DEFAULT_MIN_BATCH_SIZE
           \/ Number(boot.batchSize).halves > 2 * DEFAULT_MAX_BATCH_SIZE)
       => stage._maxBatchVertexCount % INDICES_PER_CARD = 0

CapacityOfBatchSizeWitness ==
    /\ boot.pc = "constructed"
    /\ boot.batchSize = StringOption("numeric", 2 * DEFAULT_MIN_BATCH_SIZE + 4)
    /\ stage._maxBatchVertexCount = (DEFAULT_MIN_BATCH_SIZE + 2) * INDICES_PER_CARD

-----------------------------------------------------------------------------
(* C31: pixel data is uploaded only for a source whose _invalid flag is    *)
(* set, and the upload clears the flag; a texture, which lives from the    *)
(* first draw of its source to its purge or release, is uploaded to at     *)
(* most once, over any number of draws and of returns to a slot.           *)
UploadOnlyWhenInvalid ==
    /\ \A n \in DOMAIN log.up :
          /\ log.up[n].invalid
          /\ ~img[log.up[n].image]._invalid
    /\ \A tid \in DOMAIN tex : tex[tid].uploads <= 1

(* a texture that was uploaded to in an earlier draw is put back into a    *)
(* slot it had lost, and nothing is uploaded                               *)
UploadOnlyWhenInvalidWitness ==
    /\ stage._drawID >= 2
    /\ log.up = <<>>
    /\ \E n \in DOMAIN log.ins :
          LET e == log.ins[n]
          IN  /\ tex[e.texture].uploads = 1
              /\ tex[e.texture]._imageData # NoData
              /\ \A s \in DOMAIN e.before : e.before[s] # e.texture
              /\ \E s \in DOMAIN e.after : e.after[s] = e.texture

-----------------------------------------------------------------------------
(* DisplayProps and DisplayObject.getConcatenatedDisplayProps.  A number   *)
(* is held exactly, as num / den; the display list is a chain or a fork of *)
(* containers, each with an alpha.  frame holds the locals of the call: o, *)
(* the object the loop is at, and props.                                   *)

Rational(num, den) == [num |-> num, den |-> den]
Zero == Rational(0, 1)
Half == Rational(1, 2)
One == Rational(1, 1)
(* an _alpha that is undefined *)
NoNumber == Rational(undefined, 1)

Times(x, y) == Rational(x.num * y.num, x.den * y.den)
SameNumber(x, y) == x.num * y.den = y.num * x.den

(* ToBoolean of a number or undefined *)
Truthy(x) == x.num # undefined /\ x.num # 0

(* x || 1 *)
OrOne(x) == IF Truthy(x) THEN x ELSE One

(* get alpha(): this._alpha || 1 *)
get_alpha(props) == OrOne(props._alpha)

(* set alpha(value): this._alpha = this._alpha ? value : undefined *)
set_alpha(props, value) ==
    [props EXCEPT !._alpha = IF Truthy(@) THEN value ELSE NoNumber]

(* DisplayProps.identity *)
identityProps ==
    [_visible |-> TRUE, _alpha |-> One, _matrix |-> identity]

(* DisplayProps.prepend: this.alpha *= alpha || 1, then the visibility     *)
(* (shadow and compositeOperation are not set on the objects of the model) *)
prependProps(props, visible, alpha) ==
    [set_alpha(props, Times(get_alpha(props), OrOne(alpha)))
        EXCEPT !._visible = @ /\ visible]

AlphaValues == {Zero, Half, One}

(* the parent of every container: a chain, a fork, a pair and an orphan *)
ParentShapes ==
    {<<undefined, 1, 2>>, <<undefined, 1, 1>>, <<undefined, 1, undefined>>}

InitProps ==
    \E alphas \in [Nodes -> AlphaValues], shape \in ParentShapes :
        /\ Start(Constructed(1, TRUE, 0))
        /\ boot = Booted(1)
        /\ cache = [alphas |-> alphas, parents |-> shape]

(* getConcatenatedDisplayProps up to its loop: props.identity(), and the   *)
(* matrix of the object put into props.matrix                              *)
getConcatenatedDisplayProps(target) ==
    /\ pc = "idle"
    /\ pc' = "props"
    /\ frame' = [op |-> "getConcatenatedDisplayProps", status |-> "running",
                 target |-> target, o |-> target,
                 props |-> [identityProps EXCEPT !._matrix = getMatrix(NoTransform)]]
    /\ UNCHANGED <<stage, tex, img, gl, children, stack, log, boot, cache, nodes>>

(* one turn of the loop: props.prepend(o.visible, o.alpha, ...), the       *)
(* matrix of an ancestor prepended, o = o.parent                           *)
prependParent ==
    /\ pc = "props"
    /\ frame.o # undefined
    /\ frame' = [frame EXCEPT
                    !.props = [prependProps(@, TRUE, cache.alphas[frame.o])
                                EXCEPT !._matrix =
                                    IF frame.o # frame.target
                                    THEN prependMatrix(@, getMatrix(NoTransform))
                                    ELSE @],
                    !.o = cache.parents[frame.o]]
    /\ UNCHANGED <<stage, tex, img, gl, children, stack, pc, log, boot, cache, nodes>>

(* return props *)
returnProps ==
    /\ pc = "props"
    /\ frame.o = undefined
    /\ pc' = "idle"
    /\ frame' = [frame EXCEPT !.status = "ok"]
    /\ UNCHANGED <<stage, tex, img, gl, children, stack, log, boot, cache, nodes>>

NextProps ==
    \/ \E target \in Nodes : getConcatenatedDisplayProps(target)
    \/ prependParent
    \/ returnProps

SpecProps == InitProps /\ [][NextProps]_vars

RECURSIVE AlphaProduct(_)
AlphaProduct(o) ==
    IF o = undefined THEN One
    ELSE Times(cache.alphas[o], AlphaProduct(cache.parents[o]))

(* C32: the alpha of the props getConcatenatedDisplayProps returns is the  *)
(* product of the alpha of the object and of the alphas of its ancestors,  *)
(* also when one of them is 0.                                             *)
ConcatenatedAlphaIsProduct ==
    (pc = "idle" /\ frame.op = "getConcatenatedDisplayProps")
        => SameNumber(get_alpha(frame.props), AlphaProduct(frame.target))

-----------------------------------------------------------------------------
(* C33: a card appended under an immediate mode on a stage that does not   *)
(* draw directly is rendered without an exception, and after it the concat *)
(* and temp targets of the batch are textures: _immediateBatchRender made  *)
(* the ones that were missing.                                             *)
ImmediateBuffersAllocated ==
    \A k \in DOMAIN log.wr :
        (log.wr[k].immediate /\ ~stage._directDraw)
        => /\ frame.status # "threw"
           /\ stage._batchTextureConcat \in DOMAIN tex
           /\ stage._batchTextureTemp \in DOMAIN tex
           /\ Len(log.cv) = 1

-----------------------------------------------------------------------------
(* C34: a safe releaseTexture of a Bitmap or an image that has no texture  *)
(* (never drawn, released or purged before) does not throw.                *)
SafeReleaseWithoutTexture ==
    \A k \in DOMAIN log.rel :
        (log.rel[k].safe /\ log.rel[k].texture = undefined)
        => frame.status # "threw"

-----------------------------------------------------------------------------
(* Stage.update: the tick of the stage, then its draw.  frame holds the    *)
(* display list update() was called with (established) and the one its     *)
(* draw paints (painted).                                                  *)

(* Array.prototype.reverse, which reverses the array in place *)
Reverse(list) == [k \in 1..Len(list) |-> list[Len(list) + 1 - k]]

(* Container._tick: for (const child of this.children.reverse()) ...       *)
(* (tickChildren and tickEnabled are true, their initial values)           *)
RECURSIVE _tick(_, _)
RECURSIVE TickChildren(_, _)
TickChildren(d, list) ==
    IF list = <<>> THEN d
    ELSE TickChildren(_tick(d, Head(list)), Tail(list))

_tick(d, c) ==
    TickChildren([d EXCEPT ![c].children = Reverse(@)], Reverse(d[c].children))

(* Stage.update of the stage c, a container without a parent: tick(props), *)
(* then draw, which paints the children lists as the tick left them        *)
update(c) ==
    /\ pc = "idle"
    /\ nodes[c].parent = undefined
    /\ nodes' = _tick(nodes, c)
    /\ frame' = [op |-> "update", status |-> "ok", target |-> c,
                 established |-> nodes, painted |-> _tick(nodes, c)]
    /\ UNCHANGED <<stage, tex, img, gl, children, stack, pc, log, boot, cache>>

(* The display list is built with children of a higher number than their   *)
(* container, so that it is a forest.                                      *)
NextTick ==
    \/ \E c \in Nodes, args \in ArgLists :
            (\A k \in DOMAIN args : args[k] > c) /\ addChild(c, args)
    \/ \E c \in Nodes, list \in IndexLists : removeChildAt(c, list)
    \/ \E c \in Nodes, child \in Nodes, index \in Indices : setChildIndex(c, child, index)
    \/ \E c \in Nodes : update(c)

SpecTick == Init /\ [][NextTick]_vars

(* C35: an update paints every container's children in the order the add,  *)
(* remove and reorder operations had established when it was called: the   *)
(* tick does not reorder the display list.                                 *)
TickKeepsOrder ==
    frame.op = "update"
        => \A n \in Nodes :
                frame.painted[n].children = frame.established[n].children

(* C36: addChild with two or more children puts every argument, in the     *)
(* order of the arguments, at the end of the children list and sets its    *)
(* parent to the container.                                                *)
AddChildAddsEveryArgument ==
    [][\A c \in Nodes, args \in ArgLists :
            (/\ Len(args) >= 2
             /\ \A j, k \in DOMAIN args : args[j] = args[k] => j = k
             /\ \A k \in DOMAIN args : args[k] # c
             /\ addChild(c, args))
            => /\ Len(nodes'[c].children) >= Len(args)
               /\ SubSeq(nodes'[c].children,
                         Len(nodes'[c].children) - Len(args) + 1,
                         Len(nodes'[c].children)) = args
               /\ \A k \in DOMAIN args : nodes'[args[k]].parent = c]_vars

-----------------------------------------------------------------------------
(* SpriteSheetBuilder.  cache holds the builder: _data is "empty" ({}),    *)
(* "data" (the object _startBuild makes), "undefined" or "null"; _frames   *)
(* is the number of frames, _animations the names added, _timerID whether  *)
(* a timeout is pending.  frame holds the last call: its error ("" for     *)
(* none) and whether an asynchronous build was running when it was made.   *)

(* the field initialisers: private _data?: any = {} *)
NewBuilder ==
    [_data |-> "empty", _frames |-> 0, _animations |-> {}, _index |-> 0,
     _timerID |-> FALSE, progress |-> Rational(-1, 1), spriteSheet |-> FALSE]

(* if (this._data) *)
HasData(b) == b._data \in {"empty", "data"}

(* between the start of buildAsync and its completion or stopAsync *)
Running(b) == b._timerID

InitBuilder ==
    /\ Start(Constructed(1, TRUE, 0))
    /\ boot = Booted(1)
    /\ cache = NewBuilder

Called(op, b, error) ==
    /\ frame' = [op |-> op, status |-> IF error = "" THEN "ok" ELSE "threw",
                 error |-> error, running |-> Running(cache)]
    /\ cache' = b
    /\ UNCHANGED <<stage, tex, img, gl, children, stack, pc, log, boot, nodes>>

(* SpriteSheetBuilder._startBuild; the read of frames[frames.length - 1]   *)
(* .height is a TypeError when there is no frame                           *)
_startBuild(b) == [b EXCEPT !.progress = Zero, !._index = 0, !._data = "data"]

(* SpriteSheetBuilder._endBuild *)
_endBuild(b) == [b EXCEPT !.spriteSheet = TRUE, !._data = "null", !.progress = One]

(* addFrame; hasRect: a sourceRect is given or the source has bounds *)
addFrame(hasRect) ==
    /\ cache._frames < MaxBuilderFrames
    /\ IF HasData(cache)
       THEN Called("addFrame", cache, "ERR_RUNNING")
       ELSE IF ~hasRect
            THEN Called("addFrame", cache, "")
            ELSE Called("addFrame", [cache EXCEPT !._frames = @ + 1], "")

addAnimation(name) ==
    IF HasData(cache)
    THEN Called("addAnimation", cache, "ERR_RUNNING")
    ELSE Called("addAnimation", [cache EXCEPT !._animations = @ \cup {name}], "")

(* build: _startBuild, while (this._drawNext());, _endBuild *)
build ==
    IF HasData(cache)
    THEN Called("build", cache, "ERR_RUNNING")
    ELSE IF cache._frames = 0
         THEN Called("build", _startBuild(cache), "TypeError")
         ELSE Called("build", _endBuild([_startBuild(cache) EXCEPT
                                            !._index = cache._frames]), "")

buildAsync ==
    IF HasData(cache)
    THEN Called("buildAsync", cache, "ERR_RUNNING")
    ELSE IF cache._frames = 0
         THEN Called("buildAsync", _startBuild(cache), "TypeError")
         ELSE Called("buildAsync", [_startBuild(cache) EXCEPT !._timerID = TRUE], "")

(* stopAsync: clearTimeout(this._timerID); this._data = undefined *)
stopAsync ==
    Called("stopAsync", [cache EXCEPT !._timerID = FALSE, !._data = "undefined"], "")

(* _run, when the timeout fires: drawn frames are drawn in the time slice; *)
(* the build ends with the last frame, or the timeout is set again; then   *)
(* progress = this._index / this._frames.length                            *)
_run(drawn) ==
    /\ cache._timerID
    /\ drawn <= cache._frames - cache._index
    /\ LET b == [cache EXCEPT !._index = @ + drawn]
       IN  IF drawn > 0 /\ b._index = b._frames
           THEN Called("_run", [_endBuild(b) EXCEPT
                                    !._timerID = FALSE,
                                    !.progress = Rational(b._index, b._frames)], "")
           ELSE Called("_run", [b EXCEPT
                                    !.progress = Rational(b._index, b._frames)], "")

AnimationNames == {"walk", "jump"}

NextBuilder ==
    \/ \E hasRect \in BOOLEAN : addFrame(hasRect)
    \/ \E name \in AnimationNames : addAnimation(name)
    \/ build
    \/ buildAsync
    \/ stopAsync
    \/ \E drawn \in 0..MaxBuilderFrames : _run(drawn)

SpecBuilder == InitBuilder /\ [][NextBuilder]_vars

(* C37: addFrame, addAnimation, build and buildAsync throw ERR_RUNNING     *)
(* only while an asynchronous build is running, not on a builder that is   *)
(* new or whose build has ended or was stopped.                            *)
ErrRunningOnlyWhileRunning ==
    (frame.op \in {"addFrame", "addAnimation", "build", "buildAsync"}
        /\ frame.error = "ERR_RUNNING")
    => frame.running

-----------------------------------------------------------------------------
(* cacheDraw on a stage whose slot count _initMaterials halved: the        *)
(* hardware reports gpu texture units and the batch shader compiles with n *)
(* of them, n = gpu or n = (gpu / 2)|0.                                    *)

DegradedStage(n, gpu, directDraw) ==
    [CacheStage(n, directDraw, FALSE) EXCEPT !.s._gpuTextureCount = gpu]

RECURSIVE Halvings(_)
Halvings(count) ==
    IF count <= 1 THEN <<count>> ELSE <<count>> \o Halvings(Halve(count))

TriedUntil(gpu, n) ==
    SubSeq(Halvings(gpu), 1, CHOOSE k \in DOMAIN Halvings(gpu) : Halvings(gpu)[k] = n)

InitDegraded ==
    \E n \in 1..MaxSlots, gpu \in 1..(2 * MaxSlots + 1), directDraw \in BOOLEAN :
        /\ \E k \in DOMAIN Halvings(gpu) : Halvings(gpu)[k] = n
        /\ InitCacheOf(DegradedStage(n, gpu, directDraw))
        /\ boot = [Booted(n) EXCEPT
                        !._gpuTextureCount = gpu,
                        !.compiles = {n},
                        !.tried = TriedUntil(gpu, n)]

SpecDegraded == InitDegraded /\ [][NextCache]_vars

(* C38: cacheDraw reads the slot table below the slot count only, and      *)
(* completes without an exception, also on a stage whose slot count is     *)
(* below the number of texture units of the hardware.                      *)
SlotAccessBelowCount ==
    /\ \A k \in DOMAIN log.sl : log.sl[k].index < log.sl[k].count
    /\ (frame.op = "cacheDraw" /\ stage._batchTextureCount < stage._gpuTextureCount)
            => frame.status # "threw"

-----------------------------------------------------------------------------
(* C39: the array of the micro layout holds one card.  Every write of the  *)
(* six vertices of a card into the micro layout at cursor 0 is at an index *)
(* inside the array, for the position, the uv, the texture index and the   *)
(* alpha.                                                                  *)
MicroArrayHoldsOneCard ==
    \A k \in DOMAIN log.wr :
        (log.wr[k].config = "micro" /\ log.wr[k].cursor = 0)
        => \A name \in AttributeNames :
              \A index \in log.wr[k].written[name] :
                    index >= 0 /\ index < log.wr[k].lengths[name]

-----------------------------------------------------------------------------
(* The bookkeeping of textures: the dictionary, the _storeID of the images *)
(* and the _imageData of the textures.                                     *)

(* an image with a store id finds a texture in the dictionary that was not *)
(* deleted, so that "calculate texture" never comes to its branch for a    *)
(* texture that does not exist                                             *)
Resolves(im) ==
    img[im]._storeID # undefined
    => /\ Lookup(stage, img[im]._storeID) # undefined
       /\ ~tex[Lookup(stage, img[im]._storeID)].deleted

(* the images a texture lists carry its store id, each listed once *)
ListsItsImages(tid) ==
    tex[tid]._imageData # NoData
    => \A n \in DOMAIN tex[tid]._imageData :
          /\ img[tex[tid]._imageData[n]]._storeID = tex[tid]._storeID
          /\ \A m \in DOMAIN tex[tid]._imageData :
                tex[tid]._imageData[m] = tex[tid]._imageData[n] => m = n

(* Draws, releases and purges on a context that runs out of texture memory *)
(* and gets some back.                                                     *)
NextBookkeeping ==
    \/ NextFallback
    \/ \E item \in ReleaseItems, safe \in BOOLEAN : release(item, safe)
    \/ \E count \in PurgeCounts : purge(count)

SpecBookkeeping == Init /\ [][NextBookkeeping]_vars

(* C40: after any draws, releases and purges every image with a store id   *)
(* resolves to a texture of the dictionary that is not deleted, and every  *)
(* texture lists images that carry its store id, none of them twice.       *)
TextureBookkeepingConsistent ==
    /\ \A im \in DOMAIN img : Resolves(im)
    /\ \A tid \in DOMAIN tex : ListsItsImages(tid)

====
